---- MODULE Spec2Model ----
(***************************************************************************)
(* GadySH ("gs") tree-walking interpreter: the evaluator of                *)
(* src/src/interpreter.py as a small-step machine.  The recursion of       *)
(* exec_stmt / eval_expr / _call is made explicit as a continuation stack  *)
(* (kont): one record per Python activation that is waiting for a          *)
(* sub-evaluation, holding that activation's local variables.              *)
(***************************************************************************)
EXTENDS Integers, Sequences, FiniteSets, TLC

VARIABLES
    frames,   \* heap of Environment objects; frames[1] is Interpreter.globals
    fns,      \* heap of FunctionValue objects
    lists,    \* heap of ListValue objects (their elements)
    maps,     \* heap of MapValue objects (their items, in insertion order)
    env,      \* Interpreter.env: the current frame
    mode,     \* what the interpreter is doing (see Modes)
    cur,      \* the AST node being executed / evaluated (mode = "eval")
    acc,      \* the value being returned, or carried by the ReturnSignal
    err,      \* the GadyError being propagated (mode = "err" / "failed")
    kont,     \* the continuation stack: the waiting Python activations
    last,     \* Interpreter.run's local `last`
    suite,    \* which statement pool the program is drawn from
    prog,     \* the top-level statements run so far (indices into the pool)
    outs,     \* the value of each completed top-level statement
    te        \* input and outcome of one direct _enforce_type application

vars == <<frames, fns, lists, maps, env, mode, cur, acc, err, kont, last,
          suite, prog, outs, te>>

(***************************************************************************)
(* Bounds of the model.                                                    *)
(***************************************************************************)
MaxProgramLen == 5   \* top-level statements per program
MaxFrames == 12      \* Environment objects allocated per run
MaxFns == 4          \* FunctionValue objects allocated per run
MaxScenarioLen == 2  \* top-level statements per program of a scenario pool
MaxWrites == 3       \* index writes applied to one container
MaxTextLen == 4      \* characters of a source text given to the lexer
MaxTokens == 3       \* tokens of a list given to the parser, before its EOF

(***************************************************************************)
(* Runtime values (src/src/runtime/values.py).  A value is a record with   *)
(* its class tag `t`; the payload field is named per class.                *)
(***************************************************************************)
NULL == [t |-> "Null"]
TRUE_ == [t |-> "Bool", b |-> TRUE]
FALSE_ == [t |-> "Bool", b |-> FALSE]
BoolValue(b) == [t |-> "Bool", b |-> b]
IntValue(n) == [t |-> "Int", v |-> n]
\* IntValue(2^53 + k) for a small k >= 0.  Python integers are unbounded and
\* TLC's stop below 2^31, so such a payload is kept as its offset k from 2^53.
IntValue_2p53(k) == [t |-> "Int", v53 |-> k]
StringValue(s) == [t |-> "String", s |-> s]
ListValue(r) == [t |-> "List", ref |-> r]
MapValue(r) == [t |-> "Map", ref |-> r]
FunctionValue(r) == [t |-> "Function", ref |-> r]
NativeFunctionValue(name, arity) == [t |-> "NativeFunction", name |-> name, arity |-> arity]

\* The Python class name of a value, as a character sequence.
ClassName(v) ==
    CASE v.t = "Null" -> <<"N","u","l","l","V","a","l","u","e">>
      [] v.t = "Bool" -> <<"B","o","o","l","V","a","l","u","e">>
      [] v.t = "Int" -> <<"I","n","t","V","a","l","u","e">>
      [] v.t = "Float" -> <<"F","l","o","a","t","V","a","l","u","e">>
      [] v.t = "String" -> <<"S","t","r","i","n","g","V","a","l","u","e">>
      [] v.t = "List" -> <<"L","i","s","t","V","a","l","u","e">>
      [] v.t = "Map" -> <<"M","a","p","V","a","l","u","e">>
      [] v.t = "Function" -> <<"F","u","n","c","t","i","o","n","V","a","l","u","e">>
      [] v.t = "NativeFunction" ->
            <<"N","a","t","i","v","e","F","u","n","c","t","i","o","n","V","a","l","u","e">>

IsPrefixAt(pat, s, i) ==
    /\ i + Len(pat) - 1 <= Len(s)
    /\ \A j \in 1..Len(pat) : s[i + j - 1] = pat[j]

\* str.replace(pat, ""): drop every non-overlapping occurrence, left to right.
RECURSIVE RemoveAll(_, _)
RemoveAll(s, pat) ==
    IF s = <<>> THEN <<>>
    ELSE IF IsPrefixAt(pat, s, 1)
         THEN RemoveAll(SubSeq(s, Len(pat) + 1, Len(s)), pat)
         ELSE <<Head(s)>> \o RemoveAll(Tail(s), pat)

\* Value.type_name
type_name(v) == RemoveAll(ClassName(v), <<"V","a","l","u","e">>)

(***************************************************************************)
(* Declared type strings: character sequences, as parse_type_name builds   *)
(* them; NoType is Python's None (no annotation).                          *)
(***************************************************************************)
NoType == <<"None">>
Whitespace == {" ", "\t", "\n", "\r"}

RECURSIVE LStrip(_)
LStrip(s) == IF s # <<>> /\ Head(s) \in Whitespace THEN LStrip(Tail(s)) ELSE s

RECURSIVE RStrip(_)
RStrip(s) ==
    IF s # <<>> /\ s[Len(s)] \in Whitespace THEN RStrip(SubSeq(s, 1, Len(s) - 1)) ELSE s

\* str.strip
Strip(s) == RStrip(LStrip(s))

\* s.split(sep, 1)[0]: the part before the first sep, or all of s.
RECURSIVE SplitFirst(_, _)
SplitFirst(s, sep) ==
    IF s = <<>> \/ Head(s) = sep THEN <<>>
    ELSE <<Head(s)>> \o SplitFirst(Tail(s), sep)

_base_type_Unsplit(tn) == Strip(tn)

\* Interpreter._base_type
_base_type(tn) == Strip(SplitFirst(tn, "["))

\* Interpreter._value_type
_value_type(v) == type_name(v)

AnyType == <<"A","n","y">>

\* Interpreter._enforce_type: TRUE when it returns, FALSE when it raises TypeError.
_enforce_type(expected, value) ==
    IF expected = NoType THEN TRUE
    ELSE IF Strip(expected) = AnyType THEN TRUE
    ELSE _value_type(value) = _base_type(Strip(expected))

(***************************************************************************)
(* AST nodes (src/src/ast.py).  NoNode is Python's None for an optional    *)
(* child.                                                                  *)
(***************************************************************************)
NoNode == [node |-> "None"]
IntLiteral(n) == [node |-> "IntLiteral", int |-> n]
\* the literal 2^53 + k (9007199254740992 + k)
IntLiteral_2p53(k) == [node |-> "IntLiteral", int53 |-> k]
FloatLiteral(n, d) == [node |-> "FloatLiteral", n |-> n, d |-> d]
StringLiteral(s) == [node |-> "StringLiteral", str |-> s]
BoolLiteral(b) == [node |-> "BoolLiteral", bool |-> b]
NullLiteral == [node |-> "NullLiteral"]
Identifier(name) == [node |-> "Identifier", name |-> name]
UnaryExpr(op, expr) == [node |-> "UnaryExpr", op |-> op, expr |-> expr]
BinaryExpr(left, op, right) ==
    [node |-> "BinaryExpr", left |-> left, op |-> op, right |-> right]
AssignExpr(target, value) == [node |-> "AssignExpr", target |-> target, value |-> value]
CallExpr(callee, args) == [node |-> "CallExpr", callee |-> callee, args |-> args]
IndexExpr(obj, index) == [node |-> "IndexExpr", obj |-> obj, index |-> index]
ListLiteral(elements) == [node |-> "ListLiteral", elements |-> elements]
\* entries: a sequence of <<key expression, value expression>>
MapLiteral(entries) == [node |-> "MapLiteral", entries |-> entries]
FunctionExpr(params, return_type, body) ==
    [node |-> "FunctionExpr", params |-> params, return_type |-> return_type, body |-> body]
ExprStmt(expr) == [node |-> "ExprStmt", expr |-> expr]
VarDecl(name, tn, initializer) ==
    [node |-> "VarDecl", name |-> name, type_name |-> tn, initializer |-> initializer]
Block(statements) == [node |-> "Block", statements |-> statements]
IfStmt(condition, then_branch, else_branch) ==
    [node |-> "IfStmt", condition |-> condition, then_branch |-> then_branch,
     else_branch |-> else_branch]
WhileStmt(condition, body) == [node |-> "WhileStmt", condition |-> condition, body |-> body]
ReturnStmt(value) == [node |-> "ReturnStmt", value |-> value]
FunctionDecl(name, params, return_type, body) ==
    [node |-> "FunctionDecl", name |-> name, params |-> params,
     return_type |-> return_type, body |-> body]

(***************************************************************************)
(* Errors (src/src/runtime/errors.py): TypeError_ is a RuntimeError_, both *)
(* are GadyError; ReturnSignal is not.                                     *)
(***************************************************************************)
NoErr == [kind |-> "", msg |-> ""]
RuntimeError_(msg) == [kind |-> "RuntimeError", msg |-> msg]
TypeError_(msg) == [kind |-> "TypeError", msg |-> msg]
IsGadyError(e) == e.kind \in {"LexError", "ParseError", "RuntimeError", "TypeError"}

(***************************************************************************)
(* Environment (interpreter.py 15-48).  A frame is                         *)
(* [parent, values, types]; parent 0 is None.                              *)
(***************************************************************************)
Put(m, key, x) == [n \in (DOMAIN m) \cup {key} |-> IF n = key THEN x ELSE m[n]]
EmptyDict == [n \in {} |-> NULL]

\* Environment(parent=p)
Environment(p) == [parent |-> p, values |-> EmptyDict, types |-> EmptyDict]

\* Environment.define, on a frame record
define(fr, name, value, tn) ==
    [parent |-> fr.parent, values |-> Put(fr.values, name, value),
     types |-> Put(fr.types, name, tn)]

RECURSIVE ValuesFrame_Outermost(_, _, _)
ValuesFrame_Outermost(fs, f, name) ==
    LET up == IF fs[f].parent # 0 THEN ValuesFrame_Outermost(fs, fs[f].parent, name) ELSE 0 IN
    IF up # 0 THEN up
    ELSE IF name \in DOMAIN fs[f].values THEN f
    ELSE 0

\* The frame in which Environment.get / assign find `name` (0: in none).
RECURSIVE ValuesFrame(_, _, _)
ValuesFrame(fs, f, name) ==
    IF name \in DOMAIN fs[f].values THEN f
    ELSE IF fs[f].parent # 0 THEN ValuesFrame(fs, fs[f].parent, name)
    ELSE 0

get_declared_type_OwnFrame(fs, f, name) ==
    IF name \in DOMAIN fs[f].types THEN fs[f].types[name] ELSE NoType

get_declared_type_Outermost(fs, f, name) ==
    LET g == ValuesFrame_Outermost(fs, f, name) IN
    IF g = 0 THEN NoType ELSE fs[g].types[name]

\* Environment.get_declared_type
RECURSIVE get_declared_type(_, _, _)
get_declared_type(fs, f, name) ==
    IF name \in DOMAIN fs[f].types THEN fs[f].types[name]
    ELSE IF fs[f].parent # 0 THEN get_declared_type(fs, fs[f].parent, name)
    ELSE NoType

assign_Innermost(fs, f, name, value) ==
    [fs EXCEPT ![f] = [parent |-> @.parent, values |-> Put(@.values, name, value),
                       types |-> @.types]]

\* Environment.assign, when the name is bound somewhere in the chain
assign(fs, f, name, value) ==
    LET g == ValuesFrame(fs, f, name) IN
    [fs EXCEPT ![g] = [parent |-> @.parent, values |-> Put(@.values, name, value),
                       types |-> @.types]]

(***************************************************************************)
(* Helpers of the evaluator.                                               *)
(***************************************************************************)
_is_truthy_Pythonic(v) ==
    IF v.t = "Null" THEN FALSE
    ELSE IF v.t = "Bool" THEN v.b
    ELSE IF v.t = "Int" THEN v.v # 0
    ELSE IF v.t = "String" THEN v.s # <<>>
    ELSE TRUE

\* Interpreter._is_truthy
_is_truthy(v) ==
    IF v.t = "Null" THEN FALSE
    ELSE IF v.t = "Bool" THEN v.b
    ELSE TRUE

Ok(v) == [ok |-> TRUE, val |-> v]
Raise(e) == [ok |-> FALSE, error |-> e]

\* Float payloads are exact fractions n/d with d > 0, in lowest terms.
RECURSIVE GCD(_, _)
GCD(a, b) == IF b = 0 THEN a ELSE GCD(b, a % b)
Abs(n) == IF n < 0 THEN -n ELSE n
FloatValue(n, d) ==
    LET sn == IF d < 0 THEN -n ELSE n
        sd == Abs(d)
        g == GCD(Abs(sn), sd)
    IN [t |-> "Float", n |-> sn \div g, d |-> sd \div g]

IsNumber(v) == v.t \in {"Int", "Float"}
\* float(v.value) as a fraction <<n, d>>
Num(v) == IF v.t = "Int" THEN <<v.v, 1>> ELSE <<v.n, v.d>>

\* Python's int % int (the result takes the sign of the divisor)
PyMod(a, b) == IF b > 0 THEN a % b ELSE -((-a) % (-b))

\* Interpreter._equals
_equals(a, b) ==
    IF a.t = "Null" /\ b.t = "Null" THEN TRUE
    ELSE IF a.t = "Null" \/ b.t = "Null" THEN FALSE
    ELSE IF a.t = "Bool" /\ b.t = "Bool" THEN a.b = b.b
    ELSE IF a.t = "String" /\ b.t = "String" THEN a.s = b.s
    ELSE IF IsNumber(a) /\ IsNumber(b) THEN Num(a)[1] * Num(b)[2] = Num(b)[1] * Num(a)[2]
    ELSE a.t = b.t /\ a = b

_binary_op_IntDivision(a, op, b) ==
    IF op \in {"+", "-", "*", "/", "%"} THEN
        IF op = "+" /\ a.t = "String" /\ b.t = "String" THEN Ok(StringValue(a.s \o b.s))
        ELSE IF IsNumber(a) /\ IsNumber(b) THEN
            LET use_float == a.t = "Float" \/ b.t = "Float"
                an == Num(a)[1]
                ad == Num(a)[2]
                bn == Num(b)[1]
                bd == Num(b)[2]
            IN CASE op = "+" -> Ok(IF use_float THEN FloatValue(an * bd + bn * ad, ad * bd)
                                   ELSE IntValue(an + bn))
                 [] op = "-" -> Ok(IF use_float THEN FloatValue(an * bd - bn * ad, ad * bd)
                                   ELSE IntValue(an - bn))
                 [] op = "*" -> Ok(IF use_float THEN FloatValue(an * bn, ad * bd)
                                   ELSE IntValue(an * bn))
                 [] op = "/" -> IF bn = 0 THEN Raise(RuntimeError_("Division by zero"))
                                ELSE IF use_float THEN Ok(FloatValue(an * bd, ad * bn))
                                ELSE Ok(IntValue((an - PyMod(an, bn)) \div bn))
                 [] op = "%" -> IF bn = 0 THEN Raise(RuntimeError_("Modulo by zero"))
                                ELSE IF use_float
                                THEN Raise(RuntimeError_("Modulo '%' is only supported for Int"))
                                ELSE Ok(IntValue(PyMod(an, bn)))
        ELSE Raise(RuntimeError_("Operator not supported for these types"))
    ELSE Raise(RuntimeError_("Unknown operator"))

\* Interpreter._binary_op
_binary_op(a, op, b) ==
    IF op \in {"+", "-", "*", "/", "%"} THEN
        IF op = "+" /\ a.t = "String" /\ b.t = "String" THEN Ok(StringValue(a.s \o b.s))
        ELSE IF IsNumber(a) /\ IsNumber(b) THEN
            LET use_float == a.t = "Float" \/ b.t = "Float"
                an == Num(a)[1]
                ad == Num(a)[2]
                bn == Num(b)[1]
                bd == Num(b)[2]
            IN CASE op = "+" -> Ok(IF use_float THEN FloatValue(an * bd + bn * ad, ad * bd)
                                   ELSE IntValue(an + bn))
                 [] op = "-" -> Ok(IF use_float THEN FloatValue(an * bd - bn * ad, ad * bd)
                                   ELSE IntValue(an - bn))
                 [] op = "*" -> Ok(IF use_float THEN FloatValue(an * bn, ad * bd)
                                   ELSE IntValue(an * bn))
                 [] op = "/" -> IF bn = 0 THEN Raise(RuntimeError_("Division by zero"))
                                ELSE Ok(FloatValue(an * bd, ad * bn))
                 [] op = "%" -> IF bn = 0 THEN Raise(RuntimeError_("Modulo by zero"))
                                ELSE IF use_float
                                THEN Raise(RuntimeError_("Modulo '%' is only supported for Int"))
                                ELSE Ok(IntValue(PyMod(an, bn)))
        ELSE Raise(RuntimeError_("Operator not supported for these types"))
    ELSE IF op \in {"<", "<=", ">", ">="} THEN
        IF IsNumber(a) /\ IsNumber(b) THEN
            LET av == Num(a)[1] * Num(b)[2]
                bv == Num(b)[1] * Num(a)[2]
            IN CASE op = "<" -> Ok(BoolValue(av < bv))
                 [] op = "<=" -> Ok(BoolValue(av <= bv))
                 [] op = ">" -> Ok(BoolValue(av > bv))
                 [] op = ">=" -> Ok(BoolValue(av >= bv))
        ELSE Raise(RuntimeError_("Operator expects numbers"))
    ELSE IF op \in {"==", "!="} THEN
        Ok(BoolValue(IF op = "==" THEN _equals(a, b) ELSE ~_equals(a, b)))
    ELSE Raise(RuntimeError_("Unknown operator"))

\* Interpreter._negate
_negate(v) ==
    IF v.t = "Int" THEN Ok(IntValue(-v.v))
    ELSE IF v.t = "Float" THEN Ok(FloatValue(-v.n, v.d))
    ELSE Raise(RuntimeError_("Unary '-' expects Int or Float"))

(***************************************************************************)
(* Map keys (values.py 16-21, 36, 50, 61-63, 73, 85) and MapValue          *)
(* (101-120).  A map's items are kept in insertion order, as a Python dict *)
(* keeps them: [pk: the Python key, key: the original key, val].           *)
(***************************************************************************)
\* float(2^53 + k), as an offset from 2^53: a double carries 53 significant
\* bits, so between 2^53 and 2^54 only the even integers exist and the
\* conversion rounds to the nearest, ties to the even significand.
float_2p53(k) ==
    IF k % 2 = 0 THEN k
    ELSE IF ((k - 1) \div 2) % 2 = 0 THEN k - 1
    ELSE k + 1

\* float(v.value) of an Int or Float as the payload of a Python key
float_(v) ==
    IF v.t = "Float" THEN [n |-> v.n, d |-> v.d]
    ELSE IF "v53" \in DOMAIN v THEN [n53 |-> float_2p53(v.v53)]
    ELSE [n |-> v.v, d |-> 1]

\* Value.to_python_key raised the host's TypeError
Unhashable == [tag |-> "TypeError"]

to_python_key_ById(v) ==
    CASE v.t = "Null" -> [tag |-> "null"]
      [] v.t = "Bool" -> [tag |-> "bool", b |-> v.b]
      [] v.t \in {"Int", "Float"} -> [tag |-> "num", f |-> float_(v)]
      [] v.t = "String" -> [tag |-> "str", s |-> v.s]
      [] OTHER -> [tag |-> "id", of |-> v]

\* to_python_key of each value class
to_python_key(v) ==
    CASE v.t = "Null" -> [tag |-> "null"]
      [] v.t = "Bool" -> [tag |-> "bool", b |-> v.b]
      [] v.t \in {"Int", "Float"} -> [tag |-> "num", f |-> float_(v)]
      [] v.t = "String" -> [tag |-> "str", s |-> v.s]
      [] OTHER -> Unhashable

\* the position of Python key k in items (0: k not in self.items)
KeyIndex(items, k) ==
    IF \E i \in 1..Len(items) : items[i].pk = k
    THEN CHOOSE i \in 1..Len(items) : items[i].pk = k
    ELSE 0

MapValue_set_KeepKey(items, key, value) ==
    LET k == to_python_key(key)
        i == KeyIndex(items, k)
    IN IF i = 0 THEN Append(items, [pk |-> k, key |-> key, val |-> value])
       ELSE [items EXCEPT ![i] = [pk |-> k, key |-> @.key, val |-> value]]

\* MapValue.set, for a hashable key: self.items[k] = (key, value)
MapValue_set(items, key, value) ==
    LET k == to_python_key(key)
        i == KeyIndex(items, k)
        item == [pk |-> k, key |-> key, val |-> value]
    IN IF i = 0 THEN Append(items, item) ELSE [items EXCEPT ![i] = item]

\* MapValue.get, for a hashable key
MapValue_get(items, key) ==
    LET i == KeyIndex(items, to_python_key(key)) IN
    IF i = 0 THEN NULL ELSE items[i].val

_index_get_Wrap(ls, ms, obj, idx) ==
    IF obj.t = "List" THEN
        IF idx.t # "Int" THEN Raise(RuntimeError_("List index must be Int"))
        ELSE IF "v53" \in DOMAIN idx THEN Ok(NULL)
        ELSE IF idx.v >= Len(ls[obj.ref]) \/ -idx.v > Len(ls[obj.ref]) THEN Ok(NULL)
        ELSE IF idx.v < 0 THEN Ok(ls[obj.ref][Len(ls[obj.ref]) + idx.v + 1])
        ELSE Ok(ls[obj.ref][idx.v + 1])
    ELSE IF obj.t = "Map" THEN
        IF to_python_key(idx) = Unhashable THEN Raise(RuntimeError_("Unhashable key type"))
        ELSE Ok(MapValue_get(ms[obj.ref], idx))
    ELSE Raise(RuntimeError_("Indexing is only supported on List and Map"))

\* Interpreter._index_get on the heaps ls (lists) and ms (maps)
_index_get(ls, ms, obj, idx) ==
    IF obj.t = "List" THEN
        IF idx.t # "Int" THEN Raise(RuntimeError_("List index must be Int"))
        ELSE IF "v53" \in DOMAIN idx THEN Ok(NULL)
        ELSE IF idx.v < 0 \/ idx.v >= Len(ls[obj.ref]) THEN Ok(NULL)
        ELSE Ok(ls[obj.ref][idx.v + 1])
    ELSE IF obj.t = "Map" THEN
        IF to_python_key(idx) = Unhashable THEN Raise(RuntimeError_("Unhashable key type"))
        ELSE Ok(MapValue_get(ms[obj.ref], idx))
    ELSE Raise(RuntimeError_("Indexing is only supported on List and Map"))

_index_set_Grow(ls, ms, obj, idx, value) ==
    LET Done(l, m) == [ok |-> TRUE, val |-> value, lists |-> l, maps |-> m] IN
    IF obj.t = "List" THEN
        IF idx.t # "Int" THEN Raise(RuntimeError_("List index must be Int"))
        ELSE IF "v53" \in DOMAIN idx
        THEN Raise(RuntimeError_("List assignment index out of range"))
        ELSE IF idx.v < 0 THEN Raise(RuntimeError_("Negative list index not supported"))
        ELSE IF idx.v >= Len(ls[obj.ref])
        THEN Done([ls EXCEPT ![obj.ref] = Append(@, value)], ms)
        ELSE Done([ls EXCEPT ![obj.ref] = [@ EXCEPT ![idx.v + 1] = value]], ms)
    ELSE IF obj.t = "Map" THEN
        IF to_python_key(idx) = Unhashable THEN Raise(RuntimeError_("Unhashable key type"))
        ELSE Done(ls, [ms EXCEPT ![obj.ref] = MapValue_set(@, idx, value)])
    ELSE Raise(RuntimeError_("Index assignment is only supported on List and Map"))

_index_set_CopyOnWrite(ls, ms, obj, idx, value) ==
    [ok |-> TRUE, val |-> value, lists |-> ls, maps |-> ms]

\* Interpreter._index_set: the heaps after it, or the error it raises
_index_set(ls, ms, obj, idx, value) ==
    LET Done(l, m) == [ok |-> TRUE, val |-> value, lists |-> l, maps |-> m] IN
    IF obj.t = "List" THEN
        IF idx.t # "Int" THEN Raise(RuntimeError_("List index must be Int"))
        ELSE IF "v53" \in DOMAIN idx
        THEN Raise(RuntimeError_("List assignment index out of range"))
        ELSE IF idx.v < 0 THEN Raise(RuntimeError_("Negative list index not supported"))
        ELSE IF idx.v > Len(ls[obj.ref])
        THEN Raise(RuntimeError_("List assignment index out of range"))
        ELSE IF idx.v = Len(ls[obj.ref])
        THEN Done([ls EXCEPT ![obj.ref] = Append(@, value)], ms)
        ELSE Done([ls EXCEPT ![obj.ref] = [@ EXCEPT ![idx.v + 1] = value]], ms)
    ELSE IF obj.t = "Map" THEN
        IF to_python_key(idx) = Unhashable THEN Raise(RuntimeError_("Unhashable key type"))
        ELSE Done(ls, [ms EXCEPT ![obj.ref] = MapValue_set(@, idx, value)])
    ELSE Raise(RuntimeError_("Index assignment is only supported on List and Map"))

(***************************************************************************)
(* The programs.  A program is any sequence of at most MaxProgramLen       *)
(* top-level statements drawn from one pool; Interpreter.run executes them *)
(* in order.  Type annotations are written as the parser stores them.      *)
(***************************************************************************)
T_Int == <<"I","n","t">>
T_String == <<"S","t","r","i","n","g">>
T_ListInt == <<"L","i","s","t","[","I","n","t","]">>
S_a == <<"a">>

Call0(name) == ExprStmt(CallExpr(Identifier(name), <<>>))
Call1(name, a) == ExprStmt(CallExpr(Identifier(name), <<a>>))
Call2(name, a, b) == ExprStmt(CallExpr(Identifier(name), <<a, b>>))
Untyped(name) == <<name, NoType>>

\* fn f(n) { if (n) { while (true) { return n; } } let z = 0; }
Decl_f ==
    FunctionDecl("f", <<Untyped("n")>>, NoType, Block(<<
        IfStmt(Identifier("n"),
               Block(<<WhileStmt(BoolLiteral(TRUE),
                                 Block(<<ReturnStmt(Identifier("n"))>>))>>),
               NoNode),
        VarDecl("z", NoType, IntLiteral(0))>>))
\* fn g() { let r = f(7); return r + 1; }
Decl_g ==
    FunctionDecl("g", <<>>, NoType, Block(<<
        VarDecl("r", NoType, CallExpr(Identifier("f"), <<IntLiteral(7)>>)),
        ReturnStmt(BinaryExpr(Identifier("r"), "+", IntLiteral(1)))>>))
\* { let a = 1; { return; } }
BareReturn == Block(<<VarDecl("a", NoType, IntLiteral(1)), Block(<<ReturnStmt(NoNode)>>)>>)
\* { { nope; } }
NestedUndefined == Block(<<Block(<<ExprStmt(Identifier("nope"))>>)>>)
\* if (false) { 1; } else 2;
IfElse == IfStmt(BoolLiteral(FALSE), Block(<<ExprStmt(IntLiteral(1))>>), ExprStmt(IntLiteral(2)))

PoolControl == <<Decl_f, Decl_g, Call0("g"), Call1("f", NullLiteral), BareReturn,
                 NestedUndefined, IfElse>>

\* fn make() { let c = 0; fn step() { c = c + 1; return c; } return step; }
Decl_make ==
    FunctionDecl("make", <<>>, NoType, Block(<<
        VarDecl("c", NoType, IntLiteral(0)),
        FunctionDecl("step", <<>>, NoType, Block(<<
            ExprStmt(AssignExpr(Identifier("c"),
                                BinaryExpr(Identifier("c"), "+", IntLiteral(1)))),
            ReturnStmt(Identifier("c"))>>)),
        ReturnStmt(Identifier("step"))>>))
\* let s = make();
Let_s == VarDecl("s", NoType, CallExpr(Identifier("make"), <<>>))

PoolCounter == <<Decl_make, Let_s, Call0("s")>>

\* let y = 0;
Let_y == VarDecl("y", NoType, IntLiteral(0))
\* fn gety() { return y; }
Decl_gety == FunctionDecl("gety", <<>>, NoType, Block(<<ReturnStmt(Identifier("y"))>>))
\* { let y = 5; gety(); }
LocalThenCall == Block(<<VarDecl("y", NoType, IntLiteral(5)), Call0("gety")>>)
\* y = y + 1;
Bump_y == ExprStmt(AssignExpr(Identifier("y"), BinaryExpr(Identifier("y"), "+", IntLiteral(1))))
\* fn h(y) { return gety(); }
Decl_h == FunctionDecl("h", <<Untyped("y")>>, NoType,
                       Block(<<ReturnStmt(CallExpr(Identifier("gety"), <<>>))>>))

PoolScope == <<Let_y, Decl_gety, LocalThenCall, Bump_y, Decl_h, Call1("h", IntLiteral(9))>>

\* let x: Int = 1;
Let_x_Int == VarDecl("x", T_Int, IntLiteral(1))
\* x = "a";
Set_x_str == ExprStmt(AssignExpr(Identifier("x"), StringLiteral(S_a)))
\* x = x + 1;
Bump_x == ExprStmt(AssignExpr(Identifier("x"), BinaryExpr(Identifier("x"), "+", IntLiteral(1))))
\* let x: String = "a";
Let_x_String == VarDecl("x", T_String, StringLiteral(S_a))
\* fn x() { }
Decl_x == FunctionDecl("x", <<>>, NoType, Block(<<>>))
\* let l: List[Int] = ["a"];
Let_l == VarDecl("l", T_ListInt, ListLiteral(<<StringLiteral(S_a)>>))
\* let n: Int;
Let_n_Int == VarDecl("n", T_Int, NoNode)

\* { x = "a"; }
Set_x_inner == Block(<<Set_x_str>>)

PoolTyped == <<Let_x_Int, Set_x_str, Bump_x, Let_x_String, Decl_x, Let_l, Let_n_Int,
               Set_x_inner>>

\* fn p(a: Int, b: Int): Int { if (a < 1) { return a; } }
Decl_p ==
    FunctionDecl("p", <<<<"a", T_Int>>, <<"b", T_Int>>>>, T_Int, Block(<<
        IfStmt(BinaryExpr(Identifier("a"), "<", IntLiteral(1)),
               Block(<<ReturnStmt(Identifier("a"))>>), NoNode)>>))
\* fn q(v): List[Int] { return v; }
Decl_q == FunctionDecl("q", <<Untyped("v")>>, T_ListInt, Block(<<ReturnStmt(Identifier("v"))>>))

\* (fn(): Null { })();
CallAnonNull ==
    ExprStmt(CallExpr(FunctionExpr(<<>>, <<"N","u","l","l">>, Block(<<>>)), <<>>))

PoolCalls == <<Decl_p, Call2("p", IntLiteral(0), IntLiteral(0)),
               Call2("p", IntLiteral(5), IntLiteral(0)),
               Call2("p", IntLiteral(0), StringLiteral(S_a)),
               Call1("p", IntLiteral(1)),
               Decl_q, Call1("q", ListLiteral(<<StringLiteral(S_a)>>)),
               Call1("q", IntLiteral(1)), CallAnonNull>>

\* (fn(a) { return a; })(3);
CallAnon ==
    ExprStmt(CallExpr(FunctionExpr(<<Untyped("a")>>, NoType,
                                   Block(<<ReturnStmt(Identifier("a"))>>)),
                      <<IntLiteral(3)>>))
\* { let i = 0; while (i < 2) i = i + 1; (null && nope) || 0.5; }
CountLoop ==
    Block(<<VarDecl("i", NoType, IntLiteral(0)),
            WhileStmt(BinaryExpr(Identifier("i"), "<", IntLiteral(2)),
                      ExprStmt(AssignExpr(Identifier("i"),
                                          BinaryExpr(Identifier("i"), "+", IntLiteral(1))))),
            ExprStmt(BinaryExpr(BinaryExpr(NullLiteral, "&&", Identifier("nope")), "||",
                                FloatLiteral(1, 2)))>>)
\* { __intrinsic_print(__intrinsic_typeof(std)); __intrinsic_len([]); }
UseIntrinsics ==
    Block(<<Call1("__intrinsic_print", CallExpr(Identifier("__intrinsic_typeof"),
                                                <<Identifier("std")>>)),
            Call1("__intrinsic_len", ListLiteral(<<>>))>>)

PoolNative == <<UseIntrinsics,
                Call2("__intrinsic_len", StringLiteral(S_a), IntLiteral(1)),
                ExprStmt(CallExpr(IntLiteral(1), <<>>)),
                CallAnon, CountLoop>>

(***************************************************************************)
(* Scenario pools: every statement is a block that binds what it uses in   *)
(* its own frame, so a program needs only a few of them.                   *)
(***************************************************************************)
Let(name, e) == VarDecl(name, NoType, e)
Var(name) == Identifier(name)
Num_(n) == IntLiteral(n)
Str(s) == StringLiteral(s)
S_k == <<"k">>

\* { let a = [1]; let b = a; b[0] = 2; a[0]; }
AliasByName ==
    Block(<<Let("a", ListLiteral(<<Num_(1)>>)),
            Let("b", Var("a")),
            ExprStmt(AssignExpr(IndexExpr(Var("b"), Num_(0)), Num_(2))),
            ExprStmt(IndexExpr(Var("a"), Num_(0)))>>)
\* { let a = [1]; (fn(l) { l[0] = 3; })(a); a[0]; }
AliasByArgument ==
    Block(<<Let("a", ListLiteral(<<Num_(1)>>)),
            ExprStmt(CallExpr(
                FunctionExpr(<<Untyped("l")>>, NoType,
                             Block(<<ExprStmt(AssignExpr(IndexExpr(Var("l"), Num_(0)),
                                                         Num_(3)))>>)),
                <<Var("a")>>)),
            ExprStmt(IndexExpr(Var("a"), Num_(0)))>>)
\* { let m = {}; let c = [m]; c[0]["k"] = 4; m["k"]; }
AliasByContainer ==
    Block(<<Let("m", MapLiteral(<<>>)),
            Let("c", ListLiteral(<<Var("m")>>)),
            ExprStmt(AssignExpr(IndexExpr(IndexExpr(Var("c"), Num_(0)), Str(S_k)), Num_(4))),
            ExprStmt(IndexExpr(Var("m"), Str(S_k)))>>)
\* { let a = [1]; let b = a; let m = {}; let n = m; (a == b) && (m == n); }
SameObject ==
    Block(<<Let("a", ListLiteral(<<Num_(1)>>)),
            Let("b", Var("a")),
            Let("m", MapLiteral(<<>>)),
            Let("n", Var("m")),
            ExprStmt(BinaryExpr(BinaryExpr(Var("a"), "==", Var("b")), "&&",
                                BinaryExpr(Var("m"), "==", Var("n"))))>>)
\* { let a = [1]; (a == [1]) || ({} == {}) || !(a != [1]); }
EqualContents ==
    Block(<<Let("a", ListLiteral(<<Num_(1)>>)),
            ExprStmt(BinaryExpr(
                BinaryExpr(BinaryExpr(Var("a"), "==", ListLiteral(<<Num_(1)>>)), "||",
                           BinaryExpr(MapLiteral(<<>>), "==", MapLiteral(<<>>))),
                "||",
                UnaryExpr("!", BinaryExpr(Var("a"), "!=", ListLiteral(<<Num_(1)>>)))))>>)

PoolAlias == <<AliasByName, AliasByArgument, AliasByContainer, SameObject, EqualContents>>

\* { let m = {1: 2}; m[[1]] = 3; }
ListKeyWrite ==
    Block(<<Let("m", MapLiteral(<< <<Num_(1), Num_(2)>> >>)),
            ExprStmt(AssignExpr(IndexExpr(Var("m"), ListLiteral(<<Num_(1)>>)), Num_(3)))>>)
\* { let m = {"k": 1}; m[m]; }
MapKeyRead ==
    Block(<<Let("m", MapLiteral(<< <<Str(S_k), Num_(1)>> >>)),
            ExprStmt(IndexExpr(Var("m"), Var("m")))>>)
\* { let m = {1: 2, fn() { }: 3}; }
FunctionKeyLiteral ==
    Block(<<Let("m", MapLiteral(<< <<Num_(1), Num_(2)>>,
                                   <<FunctionExpr(<<>>, NoType, Block(<<>>)), Num_(3)>> >>))>>)
\* { let m = {1: "a", true: "k"}; m[1.0] = "k"; m[1]; }
NumberKeys ==
    Block(<<Let("m", MapLiteral(<< <<Num_(1), Str(S_a)>>, <<BoolLiteral(TRUE), Str(S_k)>> >>)),
            ExprStmt(AssignExpr(IndexExpr(Var("m"), FloatLiteral(1, 1)), Str(S_k))),
            ExprStmt(IndexExpr(Var("m"), Num_(1)))>>)

PoolKeys == <<ListKeyWrite, MapKeyRead, FunctionKeyLiteral, NumberKeys>>

\* 1 / 0
DivideByZero == BinaryExpr(Num_(1), "/", Num_(0))
\* false && (1 / 0);
FalseAnd == ExprStmt(BinaryExpr(BoolLiteral(FALSE), "&&", DivideByZero))
\* true || (1 / 0);
TrueOr == ExprStmt(BinaryExpr(BoolLiteral(TRUE), "||", DivideByZero))
\* { let n = 0; (null && (n = 1)) || (0 || (n = 2)); n; }
SkippedAssignments ==
    Block(<<Let("n", Num_(0)),
            ExprStmt(BinaryExpr(
                BinaryExpr(NullLiteral, "&&", AssignExpr(Var("n"), Num_(1))), "||",
                BinaryExpr(Num_(0), "||", AssignExpr(Var("n"), Num_(2))))),
            ExprStmt(Var("n"))>>)
\* "" && [] && ({} || (1 / 0));
TruthyEmpties ==
    ExprStmt(BinaryExpr(
        BinaryExpr(Str(<<>>), "&&", ListLiteral(<<>>)), "&&",
        BinaryExpr(MapLiteral(<<>>), "||", DivideByZero)))
\* (false || null) && (1 / 0);
FalsyOperands ==
    ExprStmt(BinaryExpr(BinaryExpr(BoolLiteral(FALSE), "||", NullLiteral), "&&", DivideByZero))
\* 0 && (1 / 0);
ZeroAnd == ExprStmt(BinaryExpr(Num_(0), "&&", DivideByZero))

PoolShortCircuit == <<FalseAnd, TrueOr, SkippedAssignments, TruthyEmpties, FalsyOperands, ZeroAnd>>

\* { let v = 1; { let v = 2; v = 3; } v; }
ShadowedAssign ==
    Block(<<Let("v", Num_(1)),
            Block(<<Let("v", Num_(2)), ExprStmt(AssignExpr(Var("v"), Num_(3)))>>),
            ExprStmt(Var("v"))>>)
\* { let v = 1; { v = 3; } v; }
OuterAssign ==
    Block(<<Let("v", Num_(1)),
            Block(<<ExprStmt(AssignExpr(Var("v"), Num_(3)))>>),
            ExprStmt(Var("v"))>>)
\* { let v = 1; { w = 1; } }
UnboundAssign ==
    Block(<<Let("v", Num_(1)), Block(<<ExprStmt(AssignExpr(Var("w"), Num_(1)))>>)>>)
\* { let v = 1; { w; } }
UnboundGet == Block(<<Let("v", Num_(1)), Block(<<ExprStmt(Var("w"))>>)>>)
\* { let v = 1; { let v = v + 1; v; } }
ShadowFromOuter ==
    Block(<<Let("v", Num_(1)),
            Block(<<Let("v", BinaryExpr(Var("v"), "+", Num_(1))), ExprStmt(Var("v"))>>)>>)

PoolEnvironment == <<ShadowedAssign, OuterAssign, UnboundAssign, UnboundGet, ShadowFromOuter>>

\* ((o = o * 10 + k) && e): records the digit k in o, then is e (an Int is
\* never falsy)
Mark(k, e) ==
    BinaryExpr(AssignExpr(Var("o"),
                          BinaryExpr(BinaryExpr(Var("o"), "*", Num_(10)), "+", Num_(k))),
               "&&", e)
\* { let o = 0; let xs = [0]; Mark(2, xs)[Mark(3, 0)] = Mark(1, 5); o; }
OrderOfIndexAssign ==
    Block(<<Let("o", Num_(0)),
            Let("xs", ListLiteral(<<Num_(0)>>)),
            ExprStmt(AssignExpr(IndexExpr(Mark(2, Var("xs")), Mark(3, Num_(0))),
                                Mark(1, Num_(5)))),
            ExprStmt(Var("o"))>>)
\* { let o = 0; Mark(1, fn(a, b) { })(Mark(2, 0), Mark(3, 0)); o; }
OrderOfCall ==
    Block(<<Let("o", Num_(0)),
            ExprStmt(CallExpr(Mark(1, FunctionExpr(<<Untyped("a"), Untyped("b")>>, NoType,
                                                   Block(<<>>))),
                              <<Mark(2, Num_(0)), Mark(3, Num_(0))>>)),
            ExprStmt(Var("o"))>>)
\* { let o = 0; [Mark(1, 0), Mark(2, 0)];
\*   let m = {Mark(3, "a"): Mark(4, 0), Mark(5, "k"): Mark(6, 0)}; o; }
OrderOfLiterals ==
    Block(<<Let("o", Num_(0)),
            ExprStmt(ListLiteral(<<Mark(1, Num_(0)), Mark(2, Num_(0))>>)),
            Let("m", MapLiteral(<< <<Mark(3, Str(S_a)), Mark(4, Num_(0))>>,
                                   <<Mark(5, Str(S_k)), Mark(6, Num_(0))>> >>)),
            ExprStmt(Var("o"))>>)

PoolOrder == <<OrderOfIndexAssign, OrderOfCall, OrderOfLiterals>>

\* { let x: Int = 1; { let x = 2; x = "a"; } x; }
UntypedShadowsTyped ==
    Block(<<VarDecl("x", T_Int, Num_(1)),
            Block(<<Let("x", Num_(2)), ExprStmt(AssignExpr(Var("x"), Str(S_a)))>>),
            ExprStmt(Var("x"))>>)
\* { let x = "a"; { let x: Int = 1; x = 2; } x; }
TypedShadowsUntyped ==
    Block(<<Let("x", Str(S_a)),
            Block(<<VarDecl("x", T_Int, Num_(1)), ExprStmt(AssignExpr(Var("x"), Num_(2)))>>),
            ExprStmt(Var("x"))>>)
\* { let x = "a"; { let x: Int = 1; x = "a"; } x; }
TypedInnerRejects ==
    Block(<<Let("x", Str(S_a)),
            Block(<<VarDecl("x", T_Int, Num_(1)), ExprStmt(AssignExpr(Var("x"), Str(S_a)))>>),
            ExprStmt(Var("x"))>>)
\* { let x: Int = 1; { let y = 0; x = "a"; } x; }
TypedOuterRejects ==
    Block(<<VarDecl("x", T_Int, Num_(1)),
            Block(<<Let("y", Num_(0)), ExprStmt(AssignExpr(Var("x"), Str(S_a)))>>),
            ExprStmt(Var("x"))>>)
\* { let x: Int = 1; fn f(x) { x = "a"; } f(0); x; }
ParameterShadowsTyped ==
    Block(<<VarDecl("x", T_Int, Num_(1)),
            FunctionDecl("f", <<Untyped("x")>>, NoType,
                         Block(<<ExprStmt(AssignExpr(Var("x"), Str(S_a)))>>)),
            Call1("f", Num_(0)),
            ExprStmt(Var("x"))>>)

PoolShadow == <<UntypedShadowsTyped, TypedShadowsUntyped, TypedInnerRejects,
                TypedOuterRejects, ParameterShadowsTyped>>

T_Null == <<"N","u","l","l">>
T_NullInt == <<"N","u","l","l","[","I","n","t","]">>
T_AnyInt == <<"A","n","y","[","I","n","t","]">>
\* { let x: T; x; }
Uninitialized(T) == Block(<<VarDecl("x", T, NoNode), ExprStmt(Var("x"))>>)

PoolUninitialized ==
    <<Uninitialized(T_Int), Uninitialized(T_String), Uninitialized(T_ListInt),
      Uninitialized(T_Null), Uninitialized(T_NullInt), Uninitialized(AnyType),
      Uninitialized(T_AnyInt)>>

Let_t(e) == VarDecl("t", NoType, e)
\* { fn make() { let c = 0; fn step() { c = c + 1; return c; } return step; }
\*   let s = make(); let t = make(); s(); t(); }
LocalCounters ==
    Block(<<Decl_make, Let_s, Let_t(CallExpr(Var("make"), <<>>)), Call0("s"), Call0("t")>>)
\* { fn make(c) { fn step() { c = c + 1; return c; } return step; }
\*   let s = make(0); let t = make(0); s(); t(); }
ParameterCounters ==
    Block(<<FunctionDecl("make", <<Untyped("c")>>, NoType, Block(<<
                FunctionDecl("step", <<>>, NoType, Block(<<
                    ExprStmt(AssignExpr(Var("c"), BinaryExpr(Var("c"), "+", Num_(1)))),
                    ReturnStmt(Var("c"))>>)),
                ReturnStmt(Var("step"))>>)),
            Let("s", CallExpr(Var("make"), <<Num_(0)>>)),
            Let_t(CallExpr(Var("make"), <<Num_(0)>>)),
            Call0("s"),
            Call0("t")>>)
\* { fn f(b) { if (b) { return w; } let w = 1; return w; } f(false); f(true); }
LeftoverLocal ==
    Block(<<FunctionDecl("f", <<Untyped("b")>>, NoType, Block(<<
                IfStmt(Var("b"), Block(<<ReturnStmt(Var("w"))>>), NoNode),
                Let("w", Num_(1)),
                ReturnStmt(Var("w"))>>)),
            Call1("f", BoolLiteral(FALSE)),
            Call1("f", BoolLiteral(TRUE))>>)

PoolFresh == <<LocalCounters, ParameterCounters, LeftoverLocal>>

\* The pools whose statements build on the globals earlier statements bound.
SessionPools == <<PoolControl, PoolCounter, PoolScope, PoolTyped, PoolCalls, PoolNative>>
ScenarioPools ==
    <<PoolAlias, PoolKeys, PoolShortCircuit, PoolEnvironment, PoolOrder, PoolShadow,
      PoolUninitialized, PoolFresh>>
Pools == SessionPools \o ScenarioPools

\* how many top-level statements a program drawn from pool s may have
ProgramLen(s) == IF s <= Len(SessionPools) THEN MaxProgramLen ELSE MaxScenarioLen

(***************************************************************************)
(* Interpreter.__init__ (76-80, 110-152): the global frame with the three  *)
(* intrinsics and `std`.                                                   *)
(***************************************************************************)
Intrinsics == {"__intrinsic_print", "__intrinsic_typeof", "__intrinsic_len"}

\* The value stdlib/std.gs evaluates to: a map (its content is not used here).
StdMap == MapValue(1)

Globals ==
    [parent |-> 0,
     values |-> [n \in Intrinsics \cup {"std"} |->
                    IF n = "std" THEN StdMap ELSE NativeFunctionValue(n, 1)],
     types |-> [n \in Intrinsics \cup {"std"} |-> NoType]]

Constructed ==
    /\ frames = <<Globals>>
    /\ fns = <<>>
    /\ lists = <<>>
    /\ maps = << <<>> >>
    /\ env = 1
    /\ cur = NoNode
    /\ acc = NULL
    /\ err = NoErr
    /\ kont = <<>>
    /\ last = NULL
    /\ prog = <<>>
    /\ outs = <<>>

Init ==
    /\ Constructed
    /\ mode = "idle"
    /\ suite \in 1..Len(Pools)
    /\ te = [phase |-> "off"]

(***************************************************************************)
(* The machine.  mode is                                                   *)
(*   "idle"   Interpreter.run is between two top-level statements          *)
(*   "eval"   exec_stmt / eval_expr is entered on node cur                 *)
(*   "val"    a sub-evaluation returned acc to the activation on top       *)
(*   "call"   callee and arguments are evaluated; _call is entered         *)
(*   "ret"    a ReturnSignal carrying acc is propagating                   *)
(*   "err"    the GadyError err is propagating                             *)
(*   "done"   run returned and main printed the result (exit code 0)       *)
(*   "failed" main caught a GadyError (exit code 1)                        *)
(*   "leaked" an exception that is no GadyError left main                  *)
(***************************************************************************)
Top == kont[Len(kont)]
Pop == SubSeq(kont, 1, Len(kont) - 1)
Replace(k) == [kont EXCEPT ![Len(kont)] = k]

heap == <<frames, fns, lists, maps>>
driver == <<last, suite, prog, outs, te>>

\* ---- Interpreter.run (157-161) and main (42-48) ----
RunStmt ==
    /\ mode = "idle"
    /\ Len(prog) < ProgramLen(suite)
    /\ \E i \in 1..Len(Pools[suite]) :
         /\ cur' = Pools[suite][i]
         /\ prog' = Append(prog, i)
    /\ mode' = "eval"
    /\ UNCHANGED <<heap, env, acc, err, kont, last, suite, outs, te>>

RunStmtDone ==
    /\ mode = "val"
    /\ kont = <<>>
    /\ last' = acc
    /\ outs' = Append(outs, acc)
    /\ mode' = "idle"
    /\ UNCHANGED <<heap, env, cur, acc, err, kont, suite, prog, te>>

RunReturn ==
    /\ mode = "idle"
    /\ mode' = "done"
    /\ acc' = last
    /\ UNCHANGED <<heap, env, cur, err, kont, driver>>

MainCatch ==
    /\ mode = "err"
    /\ kont = <<>>
    /\ IsGadyError(err)
    /\ mode' = "failed"
    /\ UNCHANGED <<heap, env, cur, acc, err, kont, driver>>

\* A ReturnSignal that reaches run is not caught there, and main's
\* `except GadyError` does not match it.
MainMiss ==
    /\ mode = "ret"
    /\ kont = <<>>
    /\ mode' = "leaked"
    /\ UNCHANGED <<heap, env, cur, acc, err, kont, driver>>

\* ---- exec_stmt (163-209) ----
ExecExprStmt ==
    /\ mode = "eval"
    /\ cur.node = "ExprStmt"
    /\ cur' = cur.expr
    /\ UNCHANGED <<heap, env, mode, acc, err, kont, driver>>

ExecVarDecl ==
    /\ mode = "eval"
    /\ cur.node = "VarDecl"
    /\ kont' = Append(kont, [k |-> "VarDecl", name |-> cur.name, type_name |-> cur.type_name])
    /\ IF cur.initializer = NoNode
       THEN mode' = "val" /\ acc' = NULL /\ cur' = NoNode
       ELSE mode' = "eval" /\ acc' = acc /\ cur' = cur.initializer
    /\ UNCHANGED <<heap, env, err, driver>>

VarDeclBind_NullUnchecked ==
    /\ mode = "val"
    /\ kont # <<>>
    /\ Top.k = "VarDecl"
    /\ kont' = Pop
    /\ IF acc = NULL \/ _enforce_type(Top.type_name, acc)
       THEN /\ frames' = [frames EXCEPT ![env] = define(@, Top.name, acc, Top.type_name)]
            /\ UNCHANGED <<mode, err>>
       ELSE /\ mode' = "err"
            /\ err' = TypeError_("variable")
            /\ UNCHANGED frames
    /\ UNCHANGED <<fns, lists, maps, env, cur, acc, driver>>

\* exec_stmt, VarDecl (167-173), once the value is known: _enforce_type, then
\* define
VarDeclBind ==
    /\ mode = "val"
    /\ kont # <<>>
    /\ Top.k = "VarDecl"
    /\ kont' = Pop
    /\ IF _enforce_type(Top.type_name, acc)
       THEN /\ frames' = [frames EXCEPT ![env] = define(@, Top.name, acc, Top.type_name)]
            /\ UNCHANGED <<mode, err>>
       ELSE /\ mode' = "err"
            /\ err' = TypeError_("variable")
            /\ UNCHANGED frames
    /\ UNCHANGED <<fns, lists, maps, env, cur, acc, driver>>

ExecIf ==
    /\ mode = "eval"
    /\ cur.node = "IfStmt"
    /\ kont' = Append(kont, [k |-> "If", then_branch |-> cur.then_branch,
                             else_branch |-> cur.else_branch])
    /\ cur' = cur.condition
    /\ UNCHANGED <<heap, env, mode, acc, err, driver>>

IfBranch ==
    /\ mode = "val"
    /\ kont # <<>>
    /\ Top.k = "If"
    /\ kont' = Pop
    /\ IF _is_truthy(acc)
       THEN mode' = "eval" /\ cur' = Top.then_branch /\ acc' = acc
       ELSE IF Top.else_branch # NoNode
       THEN mode' = "eval" /\ cur' = Top.else_branch /\ acc' = acc
       ELSE mode' = "val" /\ cur' = cur /\ acc' = NULL
    /\ UNCHANGED <<heap, env, err, driver>>

ExecWhile ==
    /\ mode = "eval"
    /\ cur.node = "WhileStmt"
    /\ kont' = Append(kont, [k |-> "While", at |-> "condition", condition |-> cur.condition,
                             body |-> cur.body, last |-> NULL])
    /\ cur' = cur.condition
    /\ UNCHANGED <<heap, env, mode, acc, err, driver>>

WhileTest ==
    /\ mode = "val"
    /\ kont # <<>>
    /\ Top.k = "While"
    /\ Top.at = "condition"
    /\ IF _is_truthy(acc)
       THEN /\ kont' = Replace([Top EXCEPT !.at = "body"])
            /\ mode' = "eval"
            /\ cur' = Top.body
            /\ acc' = acc
       ELSE /\ kont' = Pop
            /\ mode' = "val"
            /\ cur' = cur
            /\ acc' = Top.last
    /\ UNCHANGED <<heap, env, err, driver>>

WhileBodyDone ==
    /\ mode = "val"
    /\ kont # <<>>
    /\ Top.k = "While"
    /\ Top.at = "body"
    /\ kont' = Replace([Top EXCEPT !.at = "condition", !.last = acc])
    /\ mode' = "eval"
    /\ cur' = Top.condition
    /\ UNCHANGED <<heap, env, acc, err, driver>>

ExecReturn ==
    /\ mode = "eval"
    /\ cur.node = "ReturnStmt"
    /\ IF cur.value = NoNode
       THEN mode' = "ret" /\ acc' = NULL /\ cur' = NoNode /\ kont' = kont
       ELSE mode' = "eval" /\ acc' = acc /\ cur' = cur.value
            /\ kont' = Append(kont, [k |-> "Return"])
    /\ UNCHANGED <<heap, env, err, driver>>

ReturnRaise ==
    /\ mode = "val"
    /\ kont # <<>>
    /\ Top.k = "Return"
    /\ kont' = Pop
    /\ mode' = "ret"
    /\ UNCHANGED <<heap, env, cur, acc, err, driver>>

ExecFunctionDecl ==
    /\ mode = "eval"
    /\ cur.node = "FunctionDecl"
    /\ Len(fns) < MaxFns
    /\ fns' = Append(fns, [name |-> cur.name, params |-> cur.params,
                           return_type |-> cur.return_type, body |-> cur.body,
                           closure |-> env])
    /\ frames' = [frames EXCEPT ![env] = define(@, cur.name, FunctionValue(Len(fns) + 1), NoType)]
    /\ acc' = FunctionValue(Len(fns) + 1)
    /\ mode' = "val"
    /\ UNCHANGED <<lists, maps, env, cur, err, kont, driver>>

\* ---- exec_block (211-220) ----
ExecBlock ==
    /\ mode = "eval"
    /\ cur.node = "Block"
    /\ Len(frames) < MaxFrames
    /\ kont' = Append(kont, [k |-> "Block", previous |-> env, rest |-> cur.statements])
    /\ frames' = Append(frames, Environment(env))
    /\ env' = Len(frames) + 1
    /\ mode' = "val"
    /\ acc' = NULL
    /\ UNCHANGED <<fns, lists, maps, cur, err, driver>>

BlockNext ==
    /\ mode = "val"
    /\ kont # <<>>
    /\ Top.k = "Block"
    /\ Top.rest # <<>>
    /\ kont' = Replace([Top EXCEPT !.rest = Tail(@)])
    /\ cur' = Head(Top.rest)
    /\ mode' = "eval"
    /\ UNCHANGED <<heap, env, acc, err, driver>>

BlockExit ==
    /\ mode = "val"
    /\ kont # <<>>
    /\ Top.k = "Block"
    /\ Top.rest = <<>>
    /\ kont' = Pop
    /\ env' = Top.previous
    /\ UNCHANGED <<heap, mode, cur, acc, err, driver>>

BlockUnwind_NoFinally ==
    /\ mode \in {"ret", "err"}
    /\ kont # <<>>
    /\ Top.k = "Block"
    /\ kont' = Pop
    /\ UNCHANGED <<heap, env, mode, cur, acc, err, driver>>

BlockUnwind_Swallow ==
    /\ mode \in {"ret", "err"}
    /\ kont # <<>>
    /\ Top.k = "Block"
    /\ kont' = Pop
    /\ env' = Top.previous
    /\ mode' = IF mode = "ret" THEN "val" ELSE mode
    /\ UNCHANGED <<heap, cur, acc, err, driver>>

\* the `finally` of exec_block on a ReturnSignal or an error
BlockUnwind ==
    /\ mode \in {"ret", "err"}
    /\ kont # <<>>
    /\ Top.k = "Block"
    /\ kont' = Pop
    /\ env' = Top.previous
    /\ UNCHANGED <<heap, mode, cur, acc, err, driver>>

\* An exception passes through every other waiting activation.
Unwind ==
    /\ mode \in {"ret", "err"}
    /\ kont # <<>>
    /\ Top.k \notin {"Block", "Call"}
    /\ kont' = Pop
    /\ UNCHANGED <<heap, env, mode, cur, acc, err, driver>>

\* ---- eval_expr (225-309) ----
Literals == {"IntLiteral", "FloatLiteral", "StringLiteral", "BoolLiteral", "NullLiteral"}

LiteralValue(n) ==
    CASE n.node = "IntLiteral" ->
            (IF "int53" \in DOMAIN n THEN IntValue_2p53(n.int53) ELSE IntValue(n.int))
      [] n.node = "FloatLiteral" -> FloatValue(n.n, n.d)
      [] n.node = "StringLiteral" -> StringValue(n.str)
      [] n.node = "BoolLiteral" -> (IF n.bool THEN TRUE_ ELSE FALSE_)
      [] n.node = "NullLiteral" -> NULL

EvalLiteral ==
    /\ mode = "eval"
    /\ cur.node \in Literals
    /\ acc' = LiteralValue(cur)
    /\ mode' = "val"
    /\ UNCHANGED <<heap, env, cur, err, kont, driver>>

\* Identifier: self.env.get(node.name)   (Environment.get, 36-41)
EvalIdentifier ==
    /\ mode = "eval"
    /\ cur.node = "Identifier"
    /\ LET g == ValuesFrame(frames, env, cur.name) IN
       IF g # 0
       THEN mode' = "val" /\ acc' = frames[g].values[cur.name] /\ err' = err
       ELSE mode' = "err" /\ acc' = acc /\ err' = RuntimeError_("Undefined variable")
    /\ UNCHANGED <<heap, env, cur, kont, driver>>

EvalListLiteral ==
    /\ mode = "eval"
    /\ cur.node = "ListLiteral"
    /\ IF cur.elements = <<>>
       THEN /\ lists' = Append(lists, <<>>)
            /\ acc' = ListValue(Len(lists) + 1)
            /\ mode' = "val"
            /\ UNCHANGED <<cur, kont>>
       ELSE /\ kont' = Append(kont, [k |-> "List", done |-> <<>>, rest |-> Tail(cur.elements)])
            /\ cur' = Head(cur.elements)
            /\ UNCHANGED <<lists, acc, mode>>
    /\ UNCHANGED <<frames, fns, maps, env, err, driver>>

ListElement ==
    /\ mode = "val"
    /\ kont # <<>>
    /\ Top.k = "List"
    /\ IF Top.rest = <<>>
       THEN /\ lists' = Append(lists, Append(Top.done, acc))
            /\ acc' = ListValue(Len(lists) + 1)
            /\ kont' = Pop
            /\ UNCHANGED <<cur, mode>>
       ELSE /\ kont' = Replace([Top EXCEPT !.done = Append(@, acc), !.rest = Tail(@)])
            /\ cur' = Head(Top.rest)
            /\ mode' = "eval"
            /\ UNCHANGED <<lists, acc>>
    /\ UNCHANGED <<frames, fns, maps, env, err, driver>>

\* AssignExpr: _assign (456-472), first the right-hand side
EvalAssign ==
    /\ mode = "eval"
    /\ cur.node = "AssignExpr"
    /\ kont' = Append(kont, [k |-> "Assign", target |-> cur.target])
    /\ cur' = cur.value
    /\ UNCHANGED <<heap, env, mode, acc, err, driver>>

\* _assign with an identifier target (459-464)
AssignIdentifier ==
    /\ mode = "val"
    /\ kont # <<>>
    /\ Top.k = "Assign"
    /\ Top.target.node = "Identifier"
    /\ kont' = Pop
    /\ LET name == Top.target.name
           declared == get_declared_type(frames, env, name)
       IN IF ~_enforce_type(declared, acc)
          THEN mode' = "err" /\ err' = TypeError_("assignment") /\ frames' = frames
          ELSE IF ValuesFrame(frames, env, name) = 0
          THEN mode' = "err" /\ err' = RuntimeError_("Undefined variable") /\ frames' = frames
          ELSE mode' = mode /\ err' = err /\ frames' = assign(frames, env, name, acc)
    /\ UNCHANGED <<fns, lists, maps, env, cur, acc, driver>>

\* MapLiteral (247-256): m = MapValue(), then each entry's key, its value,
\* and m.set
EvalMapLiteral ==
    /\ mode = "eval"
    /\ cur.node = "MapLiteral"
    /\ maps' = Append(maps, <<>>)
    /\ IF cur.entries = <<>>
       THEN /\ acc' = MapValue(Len(maps) + 1)
            /\ mode' = "val"
            /\ UNCHANGED <<cur, kont>>
       ELSE /\ kont' = Append(kont, [k |-> "MapKey", m |-> Len(maps) + 1,
                                     rest |-> cur.entries])
            /\ cur' = Head(cur.entries)[1]
            /\ UNCHANGED <<acc, mode>>
    /\ UNCHANGED <<frames, fns, lists, env, err, driver>>

MapKey ==
    /\ mode = "val"
    /\ kont # <<>>
    /\ Top.k = "MapKey"
    /\ kont' = Replace([k |-> "MapValue", m |-> Top.m, key |-> acc, rest |-> Top.rest])
    /\ cur' = Head(Top.rest)[2]
    /\ mode' = "eval"
    /\ UNCHANGED <<heap, env, acc, err, driver>>

MapEntry ==
    /\ mode = "val"
    /\ kont # <<>>
    /\ Top.k = "MapValue"
    /\ IF to_python_key(Top.key) = Unhashable
       THEN /\ kont' = Pop
            /\ mode' = "err"
            /\ err' = RuntimeError_("Unhashable key type")
            /\ UNCHANGED <<maps, cur, acc>>
       ELSE /\ maps' = [maps EXCEPT ![Top.m] = MapValue_set(@, Top.key, acc)]
            /\ err' = err
            /\ IF Tail(Top.rest) = <<>>
               THEN /\ kont' = Pop
                    /\ acc' = MapValue(Top.m)
                    /\ UNCHANGED <<mode, cur>>
               ELSE /\ kont' = Replace([k |-> "MapKey", m |-> Top.m, rest |-> Tail(Top.rest)])
                    /\ cur' = Head(Tail(Top.rest))[1]
                    /\ mode' = "eval"
                    /\ acc' = acc
    /\ UNCHANGED <<frames, fns, lists, env, driver>>

\* IndexExpr (258-261): obj, then index, then _index_get
EvalIndex ==
    /\ mode = "eval"
    /\ cur.node = "IndexExpr"
    /\ kont' = Append(kont, [k |-> "IndexObj", index |-> cur.index])
    /\ cur' = cur.obj
    /\ UNCHANGED <<heap, env, mode, acc, err, driver>>

IndexObj ==
    /\ mode = "val"
    /\ kont # <<>>
    /\ Top.k = "IndexObj"
    /\ kont' = Replace([k |-> "IndexIdx", obj |-> acc])
    /\ cur' = Top.index
    /\ mode' = "eval"
    /\ UNCHANGED <<heap, env, acc, err, driver>>

IndexGet ==
    /\ mode = "val"
    /\ kont # <<>>
    /\ Top.k = "IndexIdx"
    /\ kont' = Pop
    /\ LET r == _index_get(lists, maps, Top.obj, acc) IN
       IF r.ok THEN acc' = r.val /\ UNCHANGED <<mode, err>>
       ELSE mode' = "err" /\ err' = r.error /\ acc' = acc
    /\ UNCHANGED <<heap, env, cur, driver>>

AssignIndex_IndexFirst ==
    /\ mode = "val"
    /\ kont # <<>>
    /\ Top.k = "Assign"
    /\ Top.target.node = "IndexExpr"
    /\ kont' = Replace([k |-> "AssignIdx", value |-> acc, obj |-> lists])
    /\ cur' = Top.target.index
    /\ mode' = "eval"
    /\ UNCHANGED <<heap, env, acc, err, driver>>

\* _assign with an index target (466-470): target.obj, then target.index,
\* then _index_set
AssignIndex ==
    /\ mode = "val"
    /\ kont # <<>>
    /\ Top.k = "Assign"
    /\ Top.target.node = "IndexExpr"
    /\ kont' = Replace([k |-> "AssignObj", value |-> acc, index |-> Top.target.index])
    /\ cur' = Top.target.obj
    /\ mode' = "eval"
    /\ UNCHANGED <<heap, env, acc, err, driver>>

AssignObj ==
    /\ mode = "val"
    /\ kont # <<>>
    /\ Top.k = "AssignObj"
    /\ kont' = Replace([k |-> "AssignIdx", value |-> Top.value, obj |-> acc])
    /\ cur' = Top.index
    /\ mode' = "eval"
    /\ UNCHANGED <<heap, env, acc, err, driver>>

AssignIndexSet ==
    /\ mode = "val"
    /\ kont # <<>>
    /\ Top.k = "AssignIdx"
    /\ kont' = Pop
    /\ LET r == _index_set(lists, maps, Top.obj, acc, Top.value) IN
       IF r.ok
       THEN /\ acc' = r.val
            /\ lists' = r.lists
            /\ maps' = r.maps
            /\ UNCHANGED <<mode, err>>
       ELSE /\ mode' = "err"
            /\ err' = r.error
            /\ UNCHANGED <<acc, lists, maps>>
    /\ UNCHANGED <<frames, fns, env, cur, driver>>

\* UnaryExpr (266-272)
EvalUnary ==
    /\ mode = "eval"
    /\ cur.node = "UnaryExpr"
    /\ kont' = Append(kont, [k |-> "Unary", op |-> cur.op])
    /\ cur' = cur.expr
    /\ UNCHANGED <<heap, env, mode, acc, err, driver>>

UnaryApply ==
    /\ mode = "val"
    /\ kont # <<>>
    /\ Top.k = "Unary"
    /\ kont' = Pop
    /\ LET r == IF Top.op = "!" THEN Ok(IF _is_truthy(acc) THEN FALSE_ ELSE TRUE_)
                ELSE IF Top.op = "-" THEN _negate(acc)
                ELSE Raise(RuntimeError_("Unknown unary operator"))
       IN IF r.ok THEN acc' = r.val /\ UNCHANGED <<mode, err>>
          ELSE mode' = "err" /\ err' = r.error /\ acc' = acc
    /\ UNCHANGED <<heap, env, cur, driver>>

\* BinaryExpr (274-289)
EvalBinary ==
    /\ mode = "eval"
    /\ cur.node = "BinaryExpr"
    /\ kont' = Append(kont, [k |-> "BinaryLeft", op |-> cur.op, right |-> cur.right])
    /\ cur' = cur.left
    /\ UNCHANGED <<heap, env, mode, acc, err, driver>>

BinaryLeft ==
    /\ mode = "val"
    /\ kont # <<>>
    /\ Top.k = "BinaryLeft"
    /\ IF Top.op = "&&" /\ ~_is_truthy(acc) THEN kont' = Pop /\ UNCHANGED <<mode, cur>>
       ELSE IF Top.op = "||" /\ _is_truthy(acc) THEN kont' = Pop /\ UNCHANGED <<mode, cur>>
       ELSE IF Top.op \in {"&&", "||"} THEN kont' = Pop /\ mode' = "eval" /\ cur' = Top.right
       ELSE /\ kont' = Replace([k |-> "BinaryRight", op |-> Top.op, left |-> acc])
            /\ mode' = "eval"
            /\ cur' = Top.right
    /\ UNCHANGED <<heap, env, acc, err, driver>>

BinaryRight ==
    /\ mode = "val"
    /\ kont # <<>>
    /\ Top.k = "BinaryRight"
    /\ kont' = Pop
    /\ LET r == _binary_op(Top.left, Top.op, acc) IN
       IF r.ok THEN acc' = r.val /\ UNCHANGED <<mode, err>>
       ELSE mode' = "err" /\ err' = r.error /\ acc' = acc
    /\ UNCHANGED <<heap, env, cur, driver>>

\* FunctionExpr (300-307)
EvalFunctionExpr ==
    /\ mode = "eval"
    /\ cur.node = "FunctionExpr"
    /\ Len(fns) < MaxFns
    /\ fns' = Append(fns, [name |-> "<anon>", params |-> cur.params,
                           return_type |-> cur.return_type, body |-> cur.body,
                           closure |-> env])
    /\ acc' = FunctionValue(Len(fns) + 1)
    /\ mode' = "val"
    /\ UNCHANGED <<frames, lists, maps, env, cur, err, kont, driver>>

\* CallExpr (291-294): callee, then the arguments left to right
EvalCall ==
    /\ mode = "eval"
    /\ cur.node = "CallExpr"
    /\ kont' = Append(kont, [k |-> "Callee", args |-> cur.args])
    /\ cur' = cur.callee
    /\ UNCHANGED <<heap, env, mode, acc, err, driver>>

CallCallee ==
    /\ mode = "val"
    /\ kont # <<>>
    /\ Top.k = "Callee"
    /\ IF Top.args = <<>>
       THEN /\ kont' = Replace([k |-> "Args", callee |-> acc, done |-> <<>>, rest |-> <<>>])
            /\ mode' = "call"
            /\ cur' = cur
       ELSE /\ kont' = Replace([k |-> "Args", callee |-> acc, done |-> <<>>,
                                rest |-> Tail(Top.args)])
            /\ mode' = "eval"
            /\ cur' = Head(Top.args)
    /\ UNCHANGED <<heap, env, acc, err, driver>>

CallArg ==
    /\ mode = "val"
    /\ kont # <<>>
    /\ Top.k = "Args"
    /\ IF Top.rest = <<>>
       THEN /\ kont' = Replace([Top EXCEPT !.done = Append(@, acc)])
            /\ mode' = "call"
            /\ cur' = cur
       ELSE /\ kont' = Replace([Top EXCEPT !.done = Append(@, acc), !.rest = Tail(@)])
            /\ mode' = "eval"
            /\ cur' = Head(Top.rest)
    /\ UNCHANGED <<heap, env, acc, err, driver>>

\* ---- _call (474-503) ----
ArityMismatch_TooManyOnly(fn, args) == Len(args) > Len(fn.params)

\* len(args) != len(callee.params)   (477)
ArityMismatch(fn, args) == Len(args) # Len(fn.params)

CallFrameParent_Caller(fn) == env

\* parent of the call frame: Environment(parent=callee.closure)   (481)
CallFrameParent(fn) == fn.closure

Min(a, b) == IF a < b THEN a ELSE b

\* zip(callee.params, args) pairs the first Min(len, len) of each (483).  The
\* first pair whose declared type rejects its argument (0: none).
RECURSIVE FirstRejected(_, _, _)
FirstRejected(params, args, i) ==
    IF i > Min(Len(params), Len(args)) THEN 0
    ELSE IF ~_enforce_type(params[i][2], args[i]) THEN i
    ELSE FirstRejected(params, args, i + 1)

\* The loop of 483-485 over the first n pairs.
RECURSIVE BindParams(_, _, _, _)
BindParams(fr, params, args, n) ==
    IF n = 0 THEN fr
    ELSE define(BindParams(fr, params, args, n - 1), params[n][1], args[n], params[n][2])

CallArityError ==
    /\ mode = "call"
    /\ Top.callee.t = "Function"
    /\ ArityMismatch(fns[Top.callee.ref], Top.done)
    /\ kont' = Pop
    /\ mode' = "err"
    /\ err' = RuntimeError_("wrong number of args")
    /\ UNCHANGED <<heap, env, cur, acc, driver>>

CallArgTypeError ==
    /\ mode = "call"
    /\ Top.callee.t = "Function"
    /\ LET fn == fns[Top.callee.ref]
           bad == FirstRejected(fn.params, Top.done, 1)
       IN /\ ~ArityMismatch(fn, Top.done)
          /\ bad # 0
          /\ Len(frames) < MaxFrames
          /\ frames' = Append(frames, BindParams(Environment(CallFrameParent(fn)),
                                                 fn.params, Top.done, bad - 1))
    /\ kont' = Pop
    /\ mode' = "err"
    /\ err' = TypeError_("argument")
    /\ UNCHANGED <<fns, lists, maps, env, cur, acc, driver>>

CallUser_InClosure ==
    /\ mode = "call"
    /\ Top.callee.t = "Function"
    /\ LET fn == fns[Top.callee.ref] IN
          /\ ~ArityMismatch(fn, Top.done)
          /\ FirstRejected(fn.params, Top.done, 1) = 0
          /\ frames' = [frames EXCEPT ![fn.closure] =
                            BindParams(@, fn.params, Top.done,
                                       Min(Len(fn.params), Len(Top.done)))]
          /\ cur' = fn.body
          /\ env' = fn.closure
    /\ kont' = Replace([k |-> "Call", previous |-> env, fn |-> Top.callee.ref])
    /\ mode' = "eval"
    /\ UNCHANGED <<fns, lists, maps, acc, err, driver>>

\* _call of a FunctionValue whose arguments passed (480-487): a new
\* Environment whose parent is the closure, the parameters defined in it,
\* then the body
CallUser ==
    /\ mode = "call"
    /\ Top.callee.t = "Function"
    /\ LET fn == fns[Top.callee.ref] IN
          /\ ~ArityMismatch(fn, Top.done)
          /\ FirstRejected(fn.params, Top.done, 1) = 0
          /\ Len(frames) < MaxFrames
          /\ frames' = Append(frames, BindParams(Environment(CallFrameParent(fn)),
                                                 fn.params, Top.done,
                                                 Min(Len(fn.params), Len(Top.done))))
          /\ cur' = fn.body
    /\ env' = Len(frames) + 1
    /\ kont' = Replace([k |-> "Call", previous |-> env, fn |-> Top.callee.ref])
    /\ mode' = "eval"
    /\ UNCHANGED <<fns, lists, maps, acc, err, driver>>

ReturnChecked_Skipped(fn, value) == TRUE

\* The value a call yields for the value its body produced, or the TypeError
\* of the return-type check (490, 493).
ReturnChecked(fn, value) == _enforce_type(fn.return_type, value)

\* except ReturnSignal (489-491), then finally (495-496)
CallCatch ==
    /\ mode = "ret"
    /\ kont # <<>>
    /\ Top.k = "Call"
    /\ kont' = Pop
    /\ env' = Top.previous
    /\ IF ReturnChecked(fns[Top.fn], acc)
       THEN mode' = "val" /\ err' = err
       ELSE mode' = "err" /\ err' = TypeError_("return")
    /\ UNCHANGED <<heap, cur, acc, driver>>

\* the body ended without a return (493-494), then finally
CallFallOff ==
    /\ mode = "val"
    /\ kont # <<>>
    /\ Top.k = "Call"
    /\ kont' = Pop
    /\ env' = Top.previous
    /\ IF ReturnChecked(fns[Top.fn], NULL)
       THEN mode' = "val" /\ err' = err /\ acc' = NULL
       ELSE mode' = "err" /\ err' = TypeError_("return") /\ acc' = acc
    /\ UNCHANGED <<heap, cur, driver>>

\* an error leaves the call: finally (495-496)
CallUnwind ==
    /\ mode = "err"
    /\ kont # <<>>
    /\ Top.k = "Call"
    /\ kont' = Pop
    /\ env' = Top.previous
    /\ UNCHANGED <<heap, mode, cur, acc, err, driver>>

\* The intrinsics (111-126) applied to their argument list.
NativeImpl(name, args) ==
    LET v == args[1] IN
    CASE name = "__intrinsic_print" -> Ok(NULL)
      [] name = "__intrinsic_typeof" -> Ok(StringValue(type_name(v)))
      [] name = "__intrinsic_len" ->
            IF v.t = "String" THEN Ok(IntValue(Len(v.s)))
            ELSE IF v.t = "List" THEN Ok(IntValue(Len(lists[v.ref])))
            ELSE IF v.t = "Map" THEN Ok(IntValue(Len(maps[v.ref])))
            ELSE Raise(RuntimeError_("__intrinsic_len expects String, List, or Map"))

CallNative ==
    /\ mode = "call"
    /\ Top.callee.t = "NativeFunction"
    /\ kont' = Pop
    /\ IF Len(Top.done) # Top.callee.arity
       THEN mode' = "err" /\ err' = RuntimeError_("wrong number of args") /\ acc' = acc
       ELSE LET r == NativeImpl(Top.callee.name, Top.done) IN
            IF r.ok THEN mode' = "val" /\ acc' = r.val /\ err' = err
            ELSE mode' = "err" /\ err' = r.error /\ acc' = acc
    /\ UNCHANGED <<heap, env, cur, driver>>

CallNotCallable ==
    /\ mode = "call"
    /\ Top.callee.t \notin {"Function", "NativeFunction"}
    /\ kont' = Pop
    /\ mode' = "err"
    /\ err' = RuntimeError_("Can only call functions")
    /\ UNCHANGED <<heap, env, cur, acc, driver>>

Next ==
    \/ RunStmt \/ RunStmtDone \/ RunReturn \/ MainCatch \/ MainMiss
    \/ ExecExprStmt \/ ExecVarDecl \/ VarDeclBind \/ ExecIf \/ IfBranch
    \/ ExecWhile \/ WhileTest \/ WhileBodyDone \/ ExecReturn \/ ReturnRaise
    \/ ExecFunctionDecl \/ ExecBlock \/ BlockNext \/ BlockExit \/ BlockUnwind \/ Unwind
    \/ EvalLiteral \/ EvalIdentifier \/ EvalListLiteral \/ ListElement
    \/ EvalAssign \/ AssignIdentifier \/ EvalBinary \/ BinaryLeft \/ BinaryRight
    \/ EvalMapLiteral \/ MapKey \/ MapEntry \/ EvalIndex \/ IndexObj \/ IndexGet
    \/ AssignIndex \/ AssignObj \/ AssignIndexSet \/ EvalUnary \/ UnaryApply
    \/ EvalFunctionExpr \/ EvalCall \/ CallCallee \/ CallArg
    \/ CallArityError \/ CallArgTypeError \/ CallUser \/ CallCatch \/ CallFallOff
    \/ CallUnwind \/ CallNative \/ CallNotCallable

Spec == Init /\ [][Next]_vars

(***************************************************************************)
(* _enforce_type applied directly: the declared type is any string the     *)
(* parser can store for an annotation (parse_type_name, parser.py 166-208: *)
(* an identifier, optionally followed by a bracketed part), or None; the   *)
(* value is of any class.                                                  *)
(***************************************************************************)
TypeStrings ==
    { NoType, AnyType, T_Int, T_String, T_ListInt,
      <<"N","u","l","l">>, <<"B","o","o","l">>, <<"F","l","o","a","t">>,
      <<"L","i","s","t">>, <<"M","a","p">>, <<"i","n","t">>,
      <<"F","u","n","c","t","i","o","n">>,
      <<"N","a","t","i","v","e","F","u","n","c","t","i","o","n">>,
      <<"V","a","l","u","e">>, <<"I","n","t","V","a","l","u","e">>,
      <<"A","n","y","[","I","n","t","]">>, <<"I","n","t","[","]">>,
      <<"M","a","p","[","I","n","t",",","L","i","s","t","[","S","t","r","i","n","g","]","]">>,
      <<"L","i","s","t","[","S","t","r","i","n","g","]">>,
      <<"N","o","n","e">> }

\* One value of each class; the list holds strings.
SampleValues ==
    { NULL, TRUE_, IntValue(1), FloatValue(1, 2), StringValue(S_a), ListValue(1),
      MapValue(1), FunctionValue(1), NativeFunctionValue("__intrinsic_len", 1) }

InitEnforce ==
    /\ frames = <<Globals>>
    /\ fns = <<[name |-> "<anon>", params |-> <<>>, return_type |-> NoType,
                body |-> Block(<<>>), closure |-> 1]>>
    /\ lists = << <<StringValue(S_a)>> >>
    /\ maps = << <<>> >>
    /\ env = 1
    /\ cur = NoNode
    /\ acc = NULL
    /\ err = NoErr
    /\ kont = <<>>
    /\ last = NULL
    /\ prog = <<>>
    /\ outs = <<>>
    /\ suite = 1
    /\ mode = "enforce"
    /\ \E e \in TypeStrings, v \in SampleValues :
         te = [phase |-> "in", expected |-> e, value |-> v]

EnforceApply ==
    /\ mode = "enforce"
    /\ te.phase = "in"
    /\ te' = [phase |-> "out", expected |-> te.expected, value |-> te.value,
              ok |-> _enforce_type(te.expected, te.value)]
    /\ IF _enforce_type(te.expected, te.value)
       THEN UNCHANGED <<mode, err>>
       ELSE mode' = "err" /\ err' = TypeError_("enforce")
    /\ UNCHANGED <<heap, env, cur, acc, kont, last, suite, prog, outs>>

NextEnforce == EnforceApply

SpecEnforce == InitEnforce /\ [][NextEnforce]_vars

(***************************************************************************)
(* _index_set and _index_get applied directly to one container: a run is   *)
(* a sequence of index writes and reads on the same object, as a program   *)
(* `let c = ...; c[i1] = 1; c[i2] = 2; c[j]; ...` performs them.  The k-th *)
(* write stores the Int k.  An operation that raises ends the run.         *)
(***************************************************************************)
S_1 == <<"1">>

\* the object indexed: the list, the map, or something that is neither
IndexTargets == {ListValue(1), MapValue(1), StringValue(S_a), NULL, FunctionValue(1)}

\* the index values: one per class, Ints around the list's bounds, Int and
\* Float forms of the same number, and Ints at 2^53
SampleIndexes ==
    { NULL, TRUE_, StringValue(S_1), FloatValue(1, 1), FloatValue(1, 2),
      IntValue(-1), IntValue(0), IntValue(1), IntValue(2), IntValue(3),
      IntValue_2p53(0), IntValue_2p53(1),
      ListValue(1), MapValue(1), FunctionValue(1) }

InitIndex ==
    /\ frames = <<Globals>>
    /\ fns = <<[name |-> "<anon>", params |-> <<>>, return_type |-> NoType,
                body |-> Block(<<>>), closure |-> 1]>>
    /\ lists = << <<>> >>
    /\ maps = << <<>> >>
    /\ env = 1
    /\ cur = NoNode
    /\ acc = NULL
    /\ err = NoErr
    /\ kont = <<>>
    /\ last = NULL
    /\ prog = <<>>
    /\ outs = <<>>
    /\ suite = 1
    /\ mode = "index"
    /\ \E o \in IndexTargets :
         te = [phase |-> "index", obj |-> o, writes |-> <<>>, last |-> [op |-> "none"]]

\* c[idx] = k
IndexWrite ==
    /\ mode = "index"
    /\ Len(te.writes) < MaxWrites
    /\ \E idx \in SampleIndexes :
         LET value == IntValue(Len(te.writes) + 1)
             r == _index_set(lists, maps, te.obj, idx, value)
         IN IF r.ok
            THEN /\ lists' = r.lists
                 /\ maps' = r.maps
                 /\ acc' = r.val
                 /\ te' = [te EXCEPT !.writes = Append(@, [idx |-> idx, value |-> value]),
                                     !.last = [op |-> "set", idx |-> idx, ok |-> TRUE]]
                 /\ UNCHANGED <<mode, err>>
            ELSE /\ mode' = "err"
                 /\ err' = r.error
                 /\ te' = [te EXCEPT !.last = [op |-> "set", idx |-> idx, ok |-> FALSE]]
                 /\ UNCHANGED <<lists, maps, acc>>
    /\ UNCHANGED <<frames, fns, env, cur, kont, last, suite, prog, outs>>

\* c[idx]
IndexRead ==
    /\ mode = "index"
    /\ \E idx \in SampleIndexes :
         LET r == _index_get(lists, maps, te.obj, idx) IN
         IF r.ok
         THEN /\ acc' = r.val
              /\ te' = [te EXCEPT !.last = [op |-> "get", idx |-> idx, ok |-> TRUE]]
              /\ UNCHANGED <<mode, err>>
         ELSE /\ mode' = "err"
              /\ err' = r.error
              /\ te' = [te EXCEPT !.last = [op |-> "get", idx |-> idx, ok |-> FALSE]]
              /\ acc' = acc
    /\ UNCHANGED <<heap, env, cur, kont, last, suite, prog, outs>>

NextIndex == IndexWrite \/ IndexRead

SpecIndex == InitIndex /\ [][NextIndex]_vars

(***************************************************************************)
(* _binary_op applied directly to an arithmetic operator and two operands  *)
(* of any class.                                                           *)
(***************************************************************************)
ArithmeticOps == {"+", "-", "*", "/", "%"}

\* Ints and Floats (positive, negative, zero, equal across the two classes)
\* and one value of each other class
SampleOperands ==
    { IntValue(7), IntValue(2), IntValue(0), IntValue(-3),
      FloatValue(7, 1), FloatValue(1, 2), FloatValue(0, 1), FloatValue(-3, 2),
      NULL, TRUE_, StringValue(S_a), StringValue(<<>>), ListValue(1) }

InitArith ==
    /\ frames = <<Globals>>
    /\ fns = <<>>
    /\ lists = << <<>> >>
    /\ maps = << <<>> >>
    /\ env = 1
    /\ cur = NoNode
    /\ acc = NULL
    /\ err = NoErr
    /\ kont = <<>>
    /\ last = NULL
    /\ prog = <<>>
    /\ outs = <<>>
    /\ suite = 1
    /\ mode = "arith"
    /\ \E a \in SampleOperands, op \in ArithmeticOps, b \in SampleOperands :
         te = [phase |-> "in", a |-> a, op |-> op, b |-> b]

ArithApply ==
    /\ mode = "arith"
    /\ te.phase = "in"
    /\ LET r == _binary_op(te.a, te.op, te.b) IN
       /\ te' = [phase |-> "out", a |-> te.a, op |-> te.op, b |-> te.b, ok |-> r.ok]
       /\ IF r.ok
          THEN acc' = r.val /\ UNCHANGED <<mode, err>>
          ELSE mode' = "err" /\ err' = r.error /\ acc' = acc
    /\ UNCHANGED <<heap, env, cur, kont, last, suite, prog, outs>>

NextArith == ArithApply

SpecArith == InitArith /\ [][NextArith]_vars

(***************************************************************************)
(* The lexer (src/lexer.py, src/tokens.py), applied to one source text.    *)
(* A text is a sequence of characters, te.lexer is the Lexer object        *)
(* (text, pos, current_char) and te.tokens is tokenize's local `tokens`.   *)
(***************************************************************************)
None == "None"

Position(index, line, col) == [index |-> index, line |-> line, col |-> col]

\* Position.advance
advance(p, current_char) ==
    IF current_char = "\n" THEN Position(p.index + 1, p.line + 1, 0)
    ELSE Position(p.index + 1, p.line, p.col + 1)

Token(type, value, start, end) ==
    [type |-> type, value |-> value, start |-> start, end |-> end]

KEYWORDS ==
    (<<"l", "e", "t">> :> "LET") @@ (<<"f", "n">> :> "FN")
    @@ (<<"r", "e", "t", "u", "r", "n">> :> "RETURN") @@ (<<"i", "f">> :> "IF")
    @@ (<<"e", "l", "s", "e">> :> "ELSE") @@ (<<"w", "h", "i", "l", "e">> :> "WHILE")
    @@ (<<"t", "r", "u", "e">> :> "TRUE") @@ (<<"f", "a", "l", "s", "e">> :> "FALSE")
    @@ (<<"n", "u", "l", "l">> :> "NULL") @@ (<<"i", "m", "p", "o", "r", "t">> :> "IMPORT")

LexError(msg, start, end) ==
    [kind |-> "LexError", msg |-> msg, start |-> start, end |-> end]

\* str.isdigit, str.isalpha and str.isalnum on the characters of the texts
Digits == <<"0", "1", "2", "3", "4", "5", "6", "7", "8", "9">>
IsDigit(ch) == \E i \in 1..Len(Digits) : Digits[i] = ch
\* str.isalpha is Unicode-aware: it is also true of letters outside ASCII.
\* E_ACUTE stands for the single character U+00E9.
E_ACUTE == "U+00E9"
AsciiLetters ==
    {"a", "e", "f", "h", "i", "l", "m", "n", "o", "p", "r", "s", "t", "u", "w"}
IsAlpha(ch) == ch \in AsciiLetters \cup {E_ACUTE}
IsAlnum(ch) == IsAlpha(ch) \/ IsDigit(ch)

\* int(num_str) of a string of digits
RECURSIVE int_(_)
int_(digits) ==
    IF digits = <<>> THEN 0
    ELSE int_(SubSeq(digits, 1, Len(digits) - 1)) * 10
         + (CHOOSE i \in 0..9 : Digits[i + 1] = digits[Len(digits)])

RECURSIVE Pow10(_)
Pow10(n) == IF n = 0 THEN 1 ELSE 10 * Pow10(n - 1)

\* float(num_str) of digits with one "." in them: the decimal fraction
float_of(num_str) ==
    LET dot == CHOOSE i \in 1..Len(num_str) : num_str[i] = "."
        whole == SubSeq(num_str, 1, dot - 1)
        frac == SubSeq(num_str, dot + 1, Len(num_str))
    IN FloatValue(int_(whole \o frac), Pow10(Len(frac)))

_advance_StayAtEnd(L) ==
    LET next_index == L.pos.index + 1 IN
    IF next_index >= Len(L.text)
    THEN [L EXCEPT !.current_char = None]
    ELSE [L EXCEPT !.pos = advance(L.pos, L.current_char),
                   !.current_char = L.text[next_index + 1]]

\* Lexer._advance (text[i] of the source is L.text[i + 1])
_advance(L) ==
    LET next_index == L.pos.index + 1 IN
    IF next_index >= Len(L.text)
    THEN [L EXCEPT !.pos = advance(L.pos, L.current_char), !.current_char = None]
    ELSE [L EXCEPT !.pos = advance(L.pos, L.current_char),
                   !.current_char = L.text[next_index + 1]]

\* Lexer.__post_init__
Lexer(text) ==
    _advance([text |-> text, pos |-> Position(-1, 0, -1), current_char |-> None])

\* Lexer._peek
_peek(L) ==
    LET i == L.pos.index + 1 IN
    IF i >= Len(L.text) THEN None ELSE L.text[i + 1]

\* Lexer._make_simple
_make_simple(L, ttype) ==
    [lexer |-> _advance(L), token |-> Token(ttype, None, L.pos, L.pos)]

\* Lexer._skip_line_comment: its while loop, then the whole method
RECURSIVE SkipToNewline(_)
SkipToNewline(L) ==
    IF L.current_char # None /\ L.current_char # "\n"
    THEN SkipToNewline(_advance(L))
    ELSE L

_skip_line_comment(L) ==
    LET M == SkipToNewline(_advance(_advance(L))) IN
    IF M.current_char = "\n" THEN _advance(M) ELSE M

\* Lexer._skip_block_comment: its while loop, then the whole method
RECURSIVE BlockCommentLoop(_, _)
BlockCommentLoop(L, start) ==
    IF L.current_char # None
    THEN IF L.current_char = "*" /\ _peek(L) = "/"
         THEN Ok(_advance(_advance(L)))
         ELSE BlockCommentLoop(_advance(L), start)
    ELSE Raise(LexError("Unterminated block comment '/* ... */'", start, L.pos))

_skip_block_comment(L) == BlockCommentLoop(_advance(_advance(L)), L.pos)

\* Lexer._lex_number: its while loop, then the whole method.  int() and
\* float() cannot raise on the digits of the texts.
RECURSIVE NumberLoop(_, _, _)
NumberLoop(L, num_str, has_dot) ==
    IF L.current_char # None /\ (IsDigit(L.current_char) \/ L.current_char = ".")
    THEN IF L.current_char = "."
         THEN IF has_dot
              THEN [lexer |-> L, num_str |-> num_str, has_dot |-> has_dot]
              ELSE NumberLoop(_advance(L), Append(num_str, "."), TRUE)
         ELSE NumberLoop(_advance(L), Append(num_str, L.current_char), has_dot)
    ELSE [lexer |-> L, num_str |-> num_str, has_dot |-> has_dot]

_lex_number(L) ==
    LET start == L.pos
        r == NumberLoop(L, <<>>, FALSE)
        M == r.lexer
        end == IF r.num_str # <<>>
               THEN Position(M.pos.index - 1, M.pos.line, M.pos.col - 1)
               ELSE start
    IN IF r.has_dot
       THEN [lexer |-> M, token |-> Token("FLOAT", float_of(r.num_str), start, end)]
       ELSE [lexer |-> M, token |-> Token("INT", int_(r.num_str), start, end)]

\* the escape sequences of _lex_string (278-287)
ESCAPES ==
    ("n" :> "\n") @@ ("t" :> "\t") @@ ("r" :> "\r") @@ ("\"" :> "\"") @@ ("\\" :> "\\")

\* Lexer._lex_string: its while loop and what follows it, then the whole
\* method
RECURSIVE StringLoop(_, _, _)
StringLoop(L, chars, start) ==
    IF L.current_char # None /\ L.current_char # "\""
    THEN IF L.current_char = "\\"
         THEN LET esc_start == L.pos
                  M == _advance(L)
              IN IF M.current_char = None
                 THEN Raise(LexError("Unterminated string escape", esc_start, M.pos))
                 ELSE IF M.current_char \in DOMAIN ESCAPES
                 THEN StringLoop(_advance(M), Append(chars, ESCAPES[M.current_char]), start)
                 ELSE Raise(LexError("Unknown escape sequence", esc_start, M.pos))
         ELSE IF L.current_char = "\n"
         THEN Raise(LexError("Unterminated string literal", start, L.pos))
         ELSE StringLoop(_advance(L), Append(chars, L.current_char), start)
    ELSE IF L.current_char # "\""
    THEN Raise(LexError("Unterminated string literal", start, L.pos))
    ELSE Ok([lexer |-> _advance(L), token |-> Token("STRING", chars, start, L.pos)])

_lex_string(L) == StringLoop(_advance(L), <<>>, L.pos)

\* Lexer._lex_ident_or_keyword: its while loop, then the whole method
RECURSIVE IdentLoop(_, _)
IdentLoop(L, ident) ==
    IF L.current_char # None /\ (IsAlnum(L.current_char) \/ L.current_char = "_")
    THEN IdentLoop(_advance(L), Append(ident, L.current_char))
    ELSE [lexer |-> L, ident |-> ident]

_lex_ident_or_keyword(L) ==
    LET start == L.pos
        r == IdentLoop(L, <<>>)
        M == r.lexer
        end == Position(M.pos.index - 1, M.pos.line, M.pos.col - 1)
    IN IF r.ident \in DOMAIN KEYWORDS
       THEN [lexer |-> M, token |-> Token(KEYWORDS[r.ident], None, start, end)]
       ELSE [lexer |-> M, token |-> Token("IDENT", r.ident, start, end)]

\* the characters tokenize hands to _make_simple (63-104), "/" apart
SimpleTokens ==
    ("(" :> "LPAREN") @@ (")" :> "RPAREN") @@ ("{" :> "LBRACE") @@ ("}" :> "RBRACE")
    @@ ("[" :> "LBRACKET") @@ ("]" :> "RBRACKET") @@ ("," :> "COMMA")
    @@ (":" :> "COLON") @@ (";" :> "SEMI") @@ ("." :> "DOT") @@ ("+" :> "PLUS")
    @@ ("-" :> "MINUS") @@ ("*" :> "STAR") @@ ("%" :> "PERCENT")

\* the operators of one or two characters (107-153): alone, followed by "="
OneOrTwo ==
    ("!" :> <<"BANG", "BANG_EQ">>) @@ ("=" :> <<"EQ", "EQ_EQ">>)
    @@ ("<" :> <<"LT", "LTE">>) @@ (">" :> <<"GT", "GTE">>)

\* the operators that are a doubled character (155-173)
Doubled == ("&" :> "AND_AND") @@ ("|" :> "OR_OR")

\* the whitespace characters of tokenize (45)
Blanks == {" ", "\t", "\r", "\n"}

\* The characters of the texts: a newline; the comment, operator, number,
\* string and identifier characters; the backslash is illegal outside a
\* string, and so is, by the language's rules, a letter outside ASCII.
Alphabet == {"\n", "/", "*", "=", "&", "1", ".", "\"", "\\", "f", "n", E_ACUTE}
Texts == UNION {[1..n -> Alphabet] : n \in 0..MaxTextLen}

InitLex ==
    /\ frames = <<Globals>>
    /\ fns = <<>>
    /\ lists = << <<>> >>
    /\ maps = << <<>> >>
    /\ env = 1
    /\ cur = NoNode
    /\ acc = NULL
    /\ err = NoErr
    /\ kont = <<>>
    /\ last = NULL
    /\ prog = <<>>
    /\ outs = <<>>
    /\ suite = 1
    /\ mode = "lex"
    /\ \E text \in Texts :
         te = [phase |-> "tokenize", lexer |-> Lexer(text), tokens |-> <<>>]

\* one iteration of tokenize's loop is about to read current_char
Lexing == mode = "lex" /\ te.phase = "tokenize" /\ te.lexer.current_char # None
current_char == te.lexer.current_char
\* `continue` with the lexer as the iteration left it and the tokens appended
Continue(L, toks) ==
    /\ te' = [te EXCEPT !.lexer = L, !.tokens = te.tokens \o toks]
    /\ UNCHANGED <<heap, env, mode, cur, acc, err, kont, last, suite, prog, outs>>
\* a LexError leaves tokenize
RaiseLex(e) ==
    /\ te' = [te EXCEPT !.phase = "raised"]
    /\ mode' = "err"
    /\ err' = e
    /\ UNCHANGED <<heap, env, cur, acc, kont, last, suite, prog, outs>>

\* whitespace (45-47)
LexWhitespace ==
    /\ Lexing
    /\ current_char \in Blanks
    /\ Continue(_advance(te.lexer), <<>>)

\* a line comment (50-54)
LexLineComment ==
    /\ Lexing
    /\ current_char = "/"
    /\ _peek(te.lexer) = "/"
    /\ Continue(_skip_line_comment(te.lexer), <<>>)

\* a block comment (55-57)
LexBlockComment ==
    /\ Lexing
    /\ current_char = "/"
    /\ _peek(te.lexer) = "*"
    /\ LET r == _skip_block_comment(te.lexer) IN
       IF r.ok THEN Continue(r.val, <<>>) ELSE RaiseLex(r.error)

\* "/" as division (59) and the single-character tokens (63-104)
LexSimple ==
    /\ Lexing
    /\ \/ current_char = "/" /\ _peek(te.lexer) \notin {"/", "*"}
       \/ current_char \in DOMAIN SimpleTokens
    /\ LET ttype == IF current_char = "/" THEN "SLASH" ELSE SimpleTokens[current_char]
           r == _make_simple(te.lexer, ttype)
       IN Continue(r.lexer, <<r.token>>)

\* "!", "=", "<", ">" alone or followed by "=" (107-153)
LexOneOrTwo ==
    /\ Lexing
    /\ current_char \in DOMAIN OneOrTwo
    /\ LET start == te.lexer.pos
           M == _advance(te.lexer)
       IN IF M.current_char = "="
          THEN Continue(_advance(M), <<Token(OneOrTwo[current_char][2], None, start, M.pos)>>)
          ELSE Continue(M, <<Token(OneOrTwo[current_char][1], None, start, start)>>)

\* "&&" and "||" (155-173)
LexDoubled ==
    /\ Lexing
    /\ current_char \in DOMAIN Doubled
    /\ LET start == te.lexer.pos
           M == _advance(te.lexer)
       IN IF M.current_char = current_char
          THEN Continue(_advance(M), <<Token(Doubled[current_char], None, start, M.pos)>>)
          ELSE RaiseLex(LexError("Unexpected character (did you mean it doubled?)",
                                 start, start))

\* a number (176-178)
LexNumber ==
    /\ Lexing
    /\ IsDigit(current_char)
    /\ LET r == _lex_number(te.lexer) IN Continue(r.lexer, <<r.token>>)

\* a string (180-182)
LexString ==
    /\ Lexing
    /\ current_char = "\""
    /\ LET r == _lex_string(te.lexer) IN
       IF r.ok THEN Continue(r.val.lexer, <<r.val.token>>) ELSE RaiseLex(r.error)

\* an identifier or a keyword (185-187)
LexIdent ==
    /\ Lexing
    /\ IsAlpha(current_char) \/ current_char = "_"
    /\ LET r == _lex_ident_or_keyword(te.lexer) IN Continue(r.lexer, <<r.token>>)

\* any other character (190-191)
LexIllegal ==
    /\ Lexing
    /\ current_char \notin Blanks \cup {"/", "\"", "_"}
    /\ current_char \notin DOMAIN SimpleTokens \cup DOMAIN OneOrTwo \cup DOMAIN Doubled
    /\ ~IsDigit(current_char)
    /\ ~IsAlpha(current_char)
    /\ RaiseLex(LexError("Illegal character", te.lexer.pos, te.lexer.pos))

\* the loop has ended: the EOF token, and tokenize returns (193-195)
LexEOF ==
    /\ mode = "lex"
    /\ te.phase = "tokenize"
    /\ te.lexer.current_char = None
    /\ te' = [te EXCEPT !.phase = "returned",
                        !.tokens = Append(te.tokens,
                                          Token("EOF", None, te.lexer.pos, te.lexer.pos))]
    /\ UNCHANGED <<heap, env, mode, cur, acc, err, kont, last, suite, prog, outs>>

NextLex ==
    \/ LexWhitespace
    \/ LexLineComment
    \/ LexBlockComment
    \/ LexSimple
    \/ LexOneOrTwo
    \/ LexDoubled
    \/ LexNumber
    \/ LexString
    \/ LexIdent
    \/ LexIllegal
    \/ LexEOF

SpecLex == InitLex /\ [][NextLex]_vars

(***************************************************************************)
(* The parser (src/parser.py), applied to one token list.  tokens[self.i]  *)
(* of the source is ts[i + 1].  A parse method is an operator of the token *)
(* list and the cursor; it yields Good(cursor after, node) or, where the   *)
(* method raises, Bad(cursor at the raise, the ParseError).                *)
(***************************************************************************)
GetAttrExpr(obj, name) == [node |-> "GetAttrExpr", obj |-> obj, name |-> name]

ParseError(msg, tok) ==
    [kind |-> "ParseError", msg |-> msg, start |-> tok.start, end |-> tok.end]
Good(i, v) == [ok |-> TRUE, i |-> i, val |-> v]
Bad(i, e) == [ok |-> FALSE, i |-> i, error |-> e]

\* Parser.current, at_end, check
current(ts, i) == ts[i + 1]
at_end(ts, i) == current(ts, i).type = "EOF"
check(ts, i, t) == current(ts, i).type = t
\* Parser.advance: the cursor after it
Parser_advance(ts, i) == IF ~at_end(ts, i) THEN i + 1 ELSE i
expect_AtFirstToken(ts, i, t, msg) ==
    IF check(ts, i, t) THEN Good(Parser_advance(ts, i), current(ts, i))
    ELSE Bad(i, ParseError(msg, ts[1]))

\* Parser.expect: the token it returns is the one that was current
expect(ts, i, t, msg) ==
    IF check(ts, i, t) THEN Good(Parser_advance(ts, i), current(ts, i))
    ELSE Bad(i, ParseError(msg, current(ts, i)))

BinaryLevels_AdditiveTightest ==
    << [OR_OR |-> "||"],
       [AND_AND |-> "&&"],
       [EQ_EQ |-> "==", BANG_EQ |-> "!="],
       [LT |-> "<", LTE |-> "<=", GT |-> ">", GTE |-> ">="],
       [STAR |-> "*", SLASH |-> "/", PERCENT |-> "%"],
       [PLUS |-> "+", MINUS |-> "-"] >>

\* The token types each of parse_or, parse_and, parse_equality,
\* parse_compare, parse_term and parse_factor matches, with the operator it
\* puts in the BinaryExpr; each level calls the next one for its operands.
BinaryLevels ==
    << [OR_OR |-> "||"],
       [AND_AND |-> "&&"],
       [EQ_EQ |-> "==", BANG_EQ |-> "!="],
       [LT |-> "<", LTE |-> "<=", GT |-> ">", GTE |-> ">="],
       [PLUS |-> "+", MINUS |-> "-"],
       [STAR |-> "*", SLASH |-> "/", PERCENT |-> "%"] >>

\* `x = self.parse_...(); <rest>`: the rest runs on what the method
\* returned; a ParseError it raised leaves the calling method as well.
Then(x, rest(_)) == CHOOSE v \in {IF r.ok THEN rest(r) ELSE r : r \in {x}} : TRUE

\* one iteration of parse_type_name's loop (182-200)
TypeArgStep(ts, i, depth, parts) ==
    LET t == current(ts, i).type
        j == Parser_advance(ts, i)
    IN IF t = "LBRACKET" THEN Good(j, [depth |-> depth + 1, parts |-> Append(parts, "[")])
       ELSE IF t = "RBRACKET"
       THEN Good(j, [depth |-> depth - 1, parts |-> Append(parts, "]")])
       ELSE IF t = "COMMA" THEN Good(j, [depth |-> depth, parts |-> Append(parts, ",")])
       ELSE IF t = "IDENT"
       THEN Good(j, [depth |-> depth, parts |-> parts \o current(ts, i).value])
       ELSE Bad(i, ParseError("Invalid token in type annotation.", current(ts, i)))

\* parse_type_name's loop and the check after it (181-204)
RECURSIVE TypeArgsLoop(_, _, _, _)
TypeArgsLoop(ts, i, depth, parts) ==
    IF depth > 0 /\ ~at_end(ts, i)
    THEN Then(TypeArgStep(ts, i, depth, parts),
              LAMBDA r : TypeArgsLoop(ts, r.i, r.val.depth, r.val.parts))
    ELSE IF depth # 0
    THEN Bad(i, ParseError("Unterminated type annotation (missing ']').", current(ts, i)))
    ELSE Good(i, parts)

\* Parser.parse_type_name: the string is a sequence of characters
parse_type_name(ts, i) ==
    Then(expect(ts, i, "IDENT", "Expected type name after ':'."),
         LAMBDA base :
            IF check(ts, base.i, "LBRACKET")
            THEN Then(TypeArgsLoop(ts, Parser_advance(ts, base.i), 1, <<"[">>),
                      LAMBDA r : Good(r.i, base.val.value \o r.val))
            ELSE Good(base.i, base.val.value))

\* `if self.match(COLON): ... = self.parse_type_name()`, else None
OptionalType(ts, i) ==
    IF check(ts, i, "COLON") THEN parse_type_name(ts, Parser_advance(ts, i))
    ELSE Good(i, NoType)

\* the parameter loop of parse_fn_decl (110-117) and parse_primary (341-348)
RECURSIVE ParamsLoop(_, _, _)
ParamsLoop(ts, i, params) ==
    Then(expect(ts, i, "IDENT", "Expected parameter name."),
         LAMBDA p_name :
    Then(OptionalType(ts, p_name.i),
         LAMBDA p_type :
            LET ps == Append(params, <<p_name.val.value, p_type.val>>) IN
            IF check(ts, p_type.i, "COMMA")
            THEN ParamsLoop(ts, Parser_advance(ts, p_type.i), ps)
            ELSE Good(p_type.i, ps)))

RECURSIVE parse_statement(_, _), BlockLoop(_, _, _), parse_block_opened(_, _),
          FunctionRest(_, _), parse_expression(_, _), parse_assignment(_, _),
          parse_binary(_, _, _), BinaryLoop(_, _, _, _), parse_unary(_, _),
          PostfixStep(_, _, _), PostfixLoop(_, _, _), parse_call(_, _),
          ExprListLoop(_, _, _), MapEntriesLoop(_, _, _), parse_primary(_, _)

\* parse_block_opened's loop (85-86)
BlockLoop(ts, i, stmts) ==
    IF ~check(ts, i, "RBRACE") /\ ~at_end(ts, i)
    THEN Then(parse_statement(ts, i),
              LAMBDA s : BlockLoop(ts, s.i, Append(stmts, s.val)))
    ELSE Good(i, stmts)

\* Parser.parse_block_opened
parse_block_opened(ts, i) ==
    Then(BlockLoop(ts, i, <<>>),
         LAMBDA stmts :
    Then(expect(ts, stmts.i, "RBRACE", "Expected '}' after block."),
         LAMBDA rb : Good(rb.i, Block(stmts.val))))

\* parameters, ")", return type and body: parse_fn_decl 108-126 and
\* parse_primary 338-357, which are the same code
FunctionRest(ts, i) ==
    Then(IF ~check(ts, i, "RPAREN") THEN ParamsLoop(ts, i, <<>>) ELSE Good(i, <<>>),
         LAMBDA params :
    Then(expect(ts, params.i, "RPAREN", "Expected ')' after parameters."),
         LAMBDA rp :
    Then(OptionalType(ts, rp.i),
         LAMBDA return_type :
    Then(expect(ts, return_type.i, "LBRACE", "Expected '{' before function body."),
         LAMBDA lb :
    Then(parse_block_opened(ts, lb.i),
         LAMBDA body :
            Good(body.i, [params |-> params.val, return_type |-> return_type.val,
                          body |-> body.val]))))))

\* Parser.parse_var_decl
parse_var_decl(ts, i) ==
    Then(expect(ts, i, "IDENT", "Expected identifier after 'let'."),
         LAMBDA name_tok :
    Then(OptionalType(ts, name_tok.i),
         LAMBDA tn :
    Then(IF check(ts, tn.i, "EQ") THEN parse_expression(ts, Parser_advance(ts, tn.i))
         ELSE Good(tn.i, NoNode),
         LAMBDA initializer :
    Then(expect(ts, initializer.i, "SEMI", "Expected ';' after variable declaration."),
         LAMBDA semi :
            Good(semi.i, VarDecl(name_tok.val.value, tn.val, initializer.val))))))

\* Parser.parse_fn_decl
parse_fn_decl(ts, i) ==
    Then(expect(ts, i, "IDENT", "Expected function name after 'fn'."),
         LAMBDA name_tok :
    Then(expect(ts, name_tok.i, "LPAREN", "Expected '(' after function name."),
         LAMBDA lp :
    Then(FunctionRest(ts, lp.i),
         LAMBDA f :
            Good(f.i, FunctionDecl(name_tok.val.value, f.val.params, f.val.return_type,
                                   f.val.body)))))

\* "(" condition ")" statement: the start of parse_if and all of parse_while
ConditionAndBody(ts, i, lp_msg, rp_msg) ==
    Then(expect(ts, i, "LPAREN", lp_msg),
         LAMBDA lp :
    Then(parse_expression(ts, lp.i),
         LAMBDA condition :
    Then(expect(ts, condition.i, "RPAREN", rp_msg),
         LAMBDA rp :
    Then(parse_statement(ts, rp.i),
         LAMBDA body :
            Good(body.i, [condition |-> condition.val, body |-> body.val])))))

\* Parser.parse_if
parse_if(ts, i) ==
    Then(ConditionAndBody(ts, i, "Expected '(' after 'if'.",
                          "Expected ')' after if condition."),
         LAMBDA c :
    Then(IF check(ts, c.i, "ELSE") THEN parse_statement(ts, Parser_advance(ts, c.i))
         ELSE Good(c.i, NoNode),
         LAMBDA else_branch :
            Good(else_branch.i, IfStmt(c.val.condition, c.val.body, else_branch.val))))

\* Parser.parse_while
parse_while(ts, i) ==
    Then(ConditionAndBody(ts, i, "Expected '(' after 'while'.",
                          "Expected ')' after while condition."),
         LAMBDA c : Good(c.i, WhileStmt(c.val.condition, c.val.body)))

\* Parser.parse_return
parse_return(ts, i) ==
    IF check(ts, i, "SEMI") THEN Good(Parser_advance(ts, i), ReturnStmt(NoNode))
    ELSE Then(parse_expression(ts, i),
              LAMBDA value :
         Then(expect(ts, value.i, "SEMI", "Expected ';' after return value."),
              LAMBDA semi : Good(semi.i, ReturnStmt(value.val))))

\* Parser.parse_statement
parse_statement(ts, i) ==
    LET t == current(ts, i).type
        j == Parser_advance(ts, i)
    IN CASE t = "LET" -> parse_var_decl(ts, j)
         [] t = "FN" -> parse_fn_decl(ts, j)
         [] t = "IF" -> parse_if(ts, j)
         [] t = "WHILE" -> parse_while(ts, j)
         [] t = "RETURN" -> parse_return(ts, j)
         [] t = "LBRACE" -> parse_block_opened(ts, j)
         [] OTHER ->
            Then(parse_expression(ts, i),
                 LAMBDA expr :
            Then(expect(ts, expr.i, "SEMI", "Expected ';' after expression."),
                 LAMBDA semi : Good(semi.i, ExprStmt(expr.val))))

\* Parser.parse_expression
parse_expression(ts, i) == parse_assignment(ts, i)

\* Parser.parse_or
parse_or(ts, i) == parse_binary(1, ts, i)

AssignTargets_WithAttr == {"Identifier", "IndexExpr", "GetAttrExpr"}

\* isinstance(expr, ast.Identifier) or isinstance(expr, ast.IndexExpr) (223)
AssignTargets == {"Identifier", "IndexExpr"}

\* Parser.parse_assignment: the value is parsed before the target is looked at
parse_assignment(ts, i) ==
    Then(parse_or(ts, i),
         LAMBDA expr :
            IF check(ts, expr.i, "EQ")
            THEN LET eq_tok == current(ts, expr.i) IN
                 Then(parse_assignment(ts, Parser_advance(ts, expr.i)),
                      LAMBDA value :
                         IF expr.val.node \in AssignTargets
                         THEN Good(value.i, AssignExpr(expr.val, value.val))
                         ELSE Bad(value.i,
                                  ParseError("Invalid assignment target.", eq_tok)))
            ELSE expr)

\* the while loop of the binary level k
BinaryLoop(k, ts, i, expr) ==
    LET t == current(ts, i).type IN
    IF t \in DOMAIN BinaryLevels[k]
    THEN Then(parse_binary(k + 1, ts, Parser_advance(ts, i)),
              LAMBDA right :
                 BinaryLoop(k, ts, right.i,
                            BinaryExpr(expr, BinaryLevels[k][t], right.val)))
    ELSE Good(i, expr)

\* parse_or (k = 1), parse_and, parse_equality, parse_compare, parse_term,
\* parse_factor (k = 6); the operands of parse_factor are parse_unary's
parse_binary(k, ts, i) ==
    IF k > Len(BinaryLevels) THEN parse_unary(ts, i)
    ELSE Then(parse_binary(k + 1, ts, i),
              LAMBDA expr : BinaryLoop(k, ts, expr.i, expr.val))

\* Parser.parse_unary
parse_unary(ts, i) ==
    IF current(ts, i).type \in {"BANG", "MINUS"}
    THEN LET op == IF current(ts, i).type = "BANG" THEN "!" ELSE "-" IN
         Then(parse_unary(ts, Parser_advance(ts, i)),
              LAMBDA right : Good(right.i, UnaryExpr(op, right.val)))
    ELSE parse_call(ts, i)

\* the expressions of an argument list or a list literal (301-304, 368-371)
ExprListLoop(ts, i, exprs) ==
    Then(parse_expression(ts, i),
         LAMBDA e :
            IF check(ts, e.i, "COMMA")
            THEN ExprListLoop(ts, Parser_advance(ts, e.i), Append(exprs, e.val))
            ELSE Good(e.i, Append(exprs, e.val)))

\* the entries of a map literal (379-385)
MapEntriesLoop(ts, i, entries) ==
    Then(parse_expression(ts, i),
         LAMBDA key :
    Then(expect(ts, key.i, "COLON", "Expected ':' after map key."),
         LAMBDA colon :
    Then(parse_expression(ts, colon.i),
         LAMBDA val :
            IF check(ts, val.i, "COMMA")
            THEN MapEntriesLoop(ts, Parser_advance(ts, val.i),
                                Append(entries, <<key.val, val.val>>))
            ELSE Good(val.i, Append(entries, <<key.val, val.val>>)))))

\* one iteration of parse_call's loop (291-316); more = FALSE is its break
PostfixStep(ts, i, expr) ==
    LET t == current(ts, i).type
        j == Parser_advance(ts, i)
    IN IF t = "DOT"
       THEN Then(expect(ts, j, "IDENT", "Expected identifier after '.'."),
                 LAMBDA name_tok :
                    Good(name_tok.i, [expr |-> GetAttrExpr(expr, name_tok.val.value),
                                      more |-> TRUE]))
       ELSE IF t = "LPAREN"
       THEN Then(IF ~check(ts, j, "RPAREN") THEN ExprListLoop(ts, j, <<>>)
                 ELSE Good(j, <<>>),
                 LAMBDA args :
            Then(expect(ts, args.i, "RPAREN", "Expected ')' after arguments."),
                 LAMBDA rp :
                    Good(rp.i, [expr |-> CallExpr(expr, args.val), more |-> TRUE])))
       ELSE IF t = "LBRACKET"
       THEN Then(parse_expression(ts, j),
                 LAMBDA index :
            Then(expect(ts, index.i, "RBRACKET", "Expected ']' after index."),
                 LAMBDA rb :
                    Good(rb.i, [expr |-> IndexExpr(expr, index.val), more |-> TRUE])))
       ELSE Good(i, [expr |-> expr, more |-> FALSE])

\* parse_call's loop (290-316)
PostfixLoop(ts, i, expr) ==
    Then(PostfixStep(ts, i, expr),
         LAMBDA r : IF r.val.more THEN PostfixLoop(ts, r.i, r.val.expr)
                    ELSE Good(r.i, r.val.expr))

\* Parser.parse_call
parse_call(ts, i) ==
    Then(parse_primary(ts, i), LAMBDA expr : PostfixLoop(ts, expr.i, expr.val))

\* Parser.parse_primary
parse_primary(ts, i) ==
    LET t == current(ts, i).type
        v == current(ts, i).value
        j == Parser_advance(ts, i)
    IN CASE t = "INT" -> Good(j, IntLiteral(v))
         [] t = "FLOAT" -> Good(j, FloatLiteral(v.n, v.d))
         [] t = "STRING" -> Good(j, StringLiteral(v))
         [] t = "TRUE" -> Good(j, BoolLiteral(TRUE))
         [] t = "FALSE" -> Good(j, BoolLiteral(FALSE))
         [] t = "NULL" -> Good(j, NullLiteral)
         [] t = "FN" ->
            Then(expect(ts, j, "LPAREN", "Expected '(' after 'fn'."),
                 LAMBDA lp :
            Then(FunctionRest(ts, lp.i),
                 LAMBDA f :
                    Good(f.i, FunctionExpr(f.val.params, f.val.return_type,
                                           f.val.body))))
         [] t = "IDENT" -> Good(j, Identifier(v))
         [] t = "LBRACKET" ->
            Then(IF ~check(ts, j, "RBRACKET") THEN ExprListLoop(ts, j, <<>>)
                 ELSE Good(j, <<>>),
                 LAMBDA elems :
            Then(expect(ts, elems.i, "RBRACKET", "Expected ']' after list literal."),
                 LAMBDA rb : Good(rb.i, ListLiteral(elems.val))))
         [] t = "LBRACE" ->
            Then(IF ~check(ts, j, "RBRACE") THEN MapEntriesLoop(ts, j, <<>>)
                 ELSE Good(j, <<>>),
                 LAMBDA entries :
            Then(expect(ts, entries.i, "RBRACE", "Expected '}' after map literal."),
                 LAMBDA rb : Good(rb.i, MapLiteral(entries.val))))
         [] t = "LPAREN" ->
            Then(parse_expression(ts, j),
                 LAMBDA expr :
            Then(expect(ts, expr.i, "RPAREN", "Expected ')' after expression."),
                 LAMBDA rp : Good(rp.i, expr.val)))
         [] OTHER -> Bad(i, ParseError("Expected expression.", current(ts, i)))

\* A token of a list given to the parser: its type and value; its position
\* is its place in the list, as if every lexeme were one character long.
K(type) == <<type, None>>
Id(name) == <<"IDENT", name>>
Lit(n) == <<"INT", n>>
TokenList(items) ==
    [k \in 1..(Len(items) + 1) |->
        IF k <= Len(items)
        THEN Token(items[k][1], items[k][2], Position(k - 1, 0, k - 1),
                   Position(k - 1, 0, k - 1))
        ELSE Token("EOF", None, Position(k - 1, 0, k - 1), Position(k - 1, 0, k - 1))]

S_b == <<"b">>
S_c == <<"c">>
S_x == <<"x">>
S_f == <<"f">>

\* 1 + 2 * 3;     a - b - c;     a = b = c;     -a[0];
Src_Precedence == <<Lit(1), K("PLUS"), Lit(2), K("STAR"), Lit(3), K("SEMI")>>
Src_LeftAssoc == <<Id(S_a), K("MINUS"), Id(S_b), K("MINUS"), Id(S_c), K("SEMI")>>
Src_RightAssoc == <<Id(S_a), K("EQ"), Id(S_b), K("EQ"), Id(S_c), K("SEMI")>>
Src_UnaryPostfix ==
    <<K("MINUS"), Id(S_a), K("LBRACKET"), Lit(0), K("RBRACKET"), K("SEMI")>>
\* !a * b;     a || b && c == 1 < 2 + 3 * -a.b(c);
Src_UnaryBinary == <<K("BANG"), Id(S_a), K("STAR"), Id(S_b), K("SEMI")>>
Src_AllLevels ==
    <<Id(S_a), K("OR_OR"), Id(S_b), K("AND_AND"), Id(S_c), K("EQ_EQ"), Lit(1), K("LT"),
      Lit(2), K("PLUS"), Lit(3), K("STAR"), K("MINUS"), Id(S_a), K("DOT"), Id(S_b),
      K("LPAREN"), Id(S_c), K("RPAREN"), K("SEMI")>>
\* a[0] = 1;   (a) = 1;   1 = 2;   f() = 1;   a.b = 1;   -a = 1;   a + b = 1;
\* 1 = ;   1 = 2 = 3;
Src_IndexTarget ==
    <<Id(S_a), K("LBRACKET"), Lit(0), K("RBRACKET"), K("EQ"), Lit(1), K("SEMI")>>
Src_ParenTarget == <<K("LPAREN"), Id(S_a), K("RPAREN"), K("EQ"), Lit(1), K("SEMI")>>
Src_LiteralTarget == <<Lit(1), K("EQ"), Lit(2), K("SEMI")>>
Src_CallTarget == <<Id(S_f), K("LPAREN"), K("RPAREN"), K("EQ"), Lit(1), K("SEMI")>>
Src_AttrTarget == <<Id(S_a), K("DOT"), Id(S_b), K("EQ"), Lit(1), K("SEMI")>>
Src_UnaryTarget == <<K("MINUS"), Id(S_a), K("EQ"), Lit(1), K("SEMI")>>
Src_BinaryTarget == <<Id(S_a), K("PLUS"), Id(S_b), K("EQ"), Lit(1), K("SEMI")>>
Src_TargetNoValue == <<Lit(1), K("EQ"), K("SEMI")>>
Src_TargetChain == <<Lit(1), K("EQ"), Lit(2), K("EQ"), Lit(3), K("SEMI")>>
\* fn f(a: List[Int], b): Int { return a; }   if (a) { } else b;   while (a) a;
Src_Function ==
    <<K("FN"), Id(S_f), K("LPAREN"), Id(S_a), K("COLON"), Id(<<"L", "i", "s", "t">>),
      K("LBRACKET"), Id(T_Int), K("RBRACKET"), K("COMMA"), Id(S_b), K("RPAREN"),
      K("COLON"), Id(T_Int), K("LBRACE"), K("RETURN"), Id(S_a), K("SEMI"), K("RBRACE"),
      K("IF"), K("LPAREN"), Id(S_a), K("RPAREN"), K("LBRACE"), K("RBRACE"), K("ELSE"),
      Id(S_b), K("SEMI"),
      K("WHILE"), K("LPAREN"), Id(S_a), K("RPAREN"), Id(S_a), K("SEMI")>>
\* let x: Map[Int, List[Int]] = {a: 1, b: [1, 2]};   return;   fn() { }(1, 2);
Src_Literals ==
    <<K("LET"), Id(S_x), K("COLON"), Id(<<"M", "a", "p">>), K("LBRACKET"), Id(T_Int),
      K("COMMA"), Id(<<"L", "i", "s", "t">>), K("LBRACKET"), Id(T_Int), K("RBRACKET"),
      K("RBRACKET"), K("EQ"), K("LBRACE"), Id(S_a), K("COLON"), Lit(1), K("COMMA"),
      Id(S_b), K("COLON"), K("LBRACKET"), Lit(1), K("COMMA"), Lit(2), K("RBRACKET"),
      K("RBRACE"), K("SEMI"),
      K("RETURN"), K("SEMI"),
      K("FN"), K("LPAREN"), K("RPAREN"), K("LBRACE"), K("RBRACE"), K("LPAREN"), Lit(1),
      K("COMMA"), Lit(2), K("RPAREN"), K("SEMI")>>
\* let x: List[1];     let x: List[Int;     a; import b;     { a; b;
Src_BadTypeToken ==
    <<K("LET"), Id(S_x), K("COLON"), Id(<<"L", "i", "s", "t">>), K("LBRACKET"), Lit(1),
      K("RBRACKET"), K("SEMI")>>
Src_OpenType ==
    <<K("LET"), Id(S_x), K("COLON"), Id(<<"L", "i", "s", "t">>), K("LBRACKET"),
      Id(T_Int), K("SEMI")>>
Src_Import == <<Id(S_a), K("SEMI"), K("IMPORT"), Id(S_b), K("SEMI")>>
Src_OpenBlock == <<K("LBRACE"), Id(S_a), K("SEMI"), Id(S_b), K("SEMI")>>

SampleSources ==
    { Src_Precedence, Src_LeftAssoc, Src_RightAssoc, Src_UnaryPostfix, Src_UnaryBinary,
      Src_AllLevels, Src_IndexTarget, Src_ParenTarget, Src_LiteralTarget, Src_CallTarget,
      Src_AttrTarget, Src_UnaryTarget, Src_BinaryTarget, Src_TargetNoValue,
      Src_TargetChain, Src_Function, Src_Literals, Src_BadTypeToken, Src_OpenType,
      Src_Import, Src_OpenBlock }

\* a t1 b t2 c;     u a t1 b;     a = b t1 c;     for all binary operator
\* tokens t1, t2 and prefix operator tokens u
BinaryTokens == UNION {DOMAIN BinaryLevels[k] : k \in 1..Len(BinaryLevels)}
Src_Pair(t1, t2) == <<Id(S_a), K(t1), Id(S_b), K(t2), Id(S_c), K("SEMI")>>
Src_Prefix(u, t1) == <<K(u), Id(S_a), K(t1), Id(S_b), K("SEMI")>>
Src_Assign(t1) == <<Id(S_a), K("EQ"), Id(S_b), K(t1), Id(S_c), K("SEMI")>>
OperatorSources ==
    {Src_Pair(t1, t2) : t1 \in BinaryTokens, t2 \in BinaryTokens}
    \cup {Src_Prefix(u, t1) : u \in {"BANG", "MINUS"}, t1 \in BinaryTokens}
    \cup {Src_Assign(t1) : t1 \in BinaryTokens}

\* Every list of up to MaxTokens tokens of these types (an EOF token may
\* also stand inside the list), besides the samples; the parser's list ends
\* with one more EOF token.
TokenAlphabet ==
    { Id(S_a), K("EQ"), K("LPAREN"), K("RPAREN"), K("LBRACKET"), K("RBRACKET"),
      K("LBRACE"), K("RBRACE"), K("COMMA"), K("SEMI"), K("LET"), K("FN"), K("IMPORT"),
      K("EOF") }
Sources ==
    SampleSources \cup OperatorSources
    \cup UNION {[1..n -> TokenAlphabet] : n \in 0..MaxTokens}

InitParse ==
    /\ frames = <<Globals>>
    /\ fns = <<>>
    /\ lists = << <<>> >>
    /\ maps = << <<>> >>
    /\ env = 1
    /\ cur = NoNode
    /\ acc = NULL
    /\ err = NoErr
    /\ kont = <<>>
    /\ last = NULL
    /\ prog = <<>>
    /\ outs = <<>>
    /\ suite = 1
    /\ mode = "parse"
    /\ \E items \in Sources :
         te = [phase |-> "parse", src |-> items, tokens |-> TokenList(items), i |-> 0,
               stmts |-> <<>>]

\* one iteration of parse_program's loop (56-57); a ParseError leaves it
ParseStatement ==
    /\ mode = "parse"
    /\ te.phase = "parse"
    /\ ~at_end(te.tokens, te.i)
    /\ \E r \in {parse_statement(te.tokens, te.i)} :
       IF r.ok
       THEN /\ te' = [te EXCEPT !.i = r.i, !.stmts = Append(te.stmts, r.val)]
            /\ UNCHANGED <<mode, err>>
       ELSE /\ te' = [te EXCEPT !.phase = "raised", !.i = r.i]
            /\ mode' = "err"
            /\ err' = r.error
    /\ UNCHANGED <<heap, env, cur, acc, kont, last, suite, prog, outs>>

\* parse_program returns stmts (58)
ParseReturn ==
    /\ mode = "parse"
    /\ te.phase = "parse"
    /\ at_end(te.tokens, te.i)
    /\ te' = [te EXCEPT !.phase = "returned"]
    /\ UNCHANGED <<heap, env, mode, cur, acc, err, kont, last, suite, prog, outs>>

NextParse == ParseStatement \/ ParseReturn

SpecParse == InitParse /\ [][NextParse]_vars

\* parse_program is one call that runs to its end: its loop keeps iterating
\* while it can.
SpecParseFair == SpecParse /\ WF_vars(NextParse)

(***************************************************************************)
(* display (src/src/runtime/values.py) of the values a map of the index    *)
(* runs holds: the text shown for a value.                                 *)
(***************************************************************************)
\* str(n) of a Python int
RECURSIVE DecimalOf(_)
DecimalOf(n) ==
    IF n < 0 THEN <<"-">> \o DecimalOf(-n)
    ELSE IF n < 10 THEN <<Digits[n + 1]>>
    ELSE DecimalOf(n \div 10) \o <<Digits[(n % 10) + 1]>>

\* str(2^53 + k), 0 <= k <= 7: 9007199254740992 + k
Decimal_2p53(k) ==
    <<"9","0","0","7","1","9","9","2","5","4","7","4","0","9","9">> \o DecimalOf(2 + k)

\* str(x) of the Python float n/d, for whole numbers and halves
FloatRepr(n, d) ==
    CASE d = 1 -> DecimalOf(n) \o <<".", "0">>
      [] d = 2 -> (IF n < 0 THEN <<"-">> ELSE <<>>)
                  \o DecimalOf((IF n < 0 THEN -n ELSE n) \div 2) \o <<".", "5">>

\* display of NullValue, BoolValue, IntValue, FloatValue, StringValue
display(v) ==
    CASE v.t = "Null" -> <<"n","u","l","l">>
      [] v.t = "Bool" -> IF v.b THEN <<"t","r","u","e">> ELSE <<"f","a","l","s","e">>
      [] v.t = "Int" -> IF "v53" \in DOMAIN v THEN Decimal_2p53(v.v53) ELSE DecimalOf(v.v)
      [] v.t = "Float" -> FloatRepr(v.n, v.d)
      [] v.t = "String" -> <<"\"">> \o v.s \o <<"\"">>

\* ", ".join(parts)
RECURSIVE Join(_)
Join(parts) ==
    IF parts = <<>> THEN <<>>
    ELSE IF Len(parts) = 1 THEN parts[1]
    ELSE parts[1] \o <<",", " ">> \o Join(Tail(parts))

\* the parts MapValue.display collects, in the order of self.items
DisplayParts(items) ==
    [i \in 1..Len(items) |-> display(items[i].key) \o <<":", " ">> \o display(items[i].val)]

\* MapValue.display
MapValue_display(items) == <<"{", " ">> \o Join(DisplayParts(items)) \o <<" ", "}">>

(***************************************************************************)
(* Properties.                                                             *)
(***************************************************************************)
Range(q) == {q[i] : i \in 1..Len(q)}
Stopped(m) == m \in {"idle", "done", "failed", "leaked"}
InCall(q) == \E i \in 1..Len(q) : q[i].k = "Call"
\* The declared base type an annotation names: the part before its first "[".
BaseOf(tn) == SplitFirst(tn, "[")
Enforced(tn) == tn # NoType /\ tn # AnyType

\* C1: exec_block and a user-function call record the frame that is current
\* when they start, and whichever way they finish (normal completion, a
\* ReturnSignal passing through or caught, an error) the current frame is
\* that frame again; whenever run is between statements or has ended
\* (normally, by an error, by an escaping signal) the current frame is the
\* global frame.
C1_FrameRestored ==
    [][ /\ (Len(kont') = Len(kont) + 1 /\ kont'[Len(kont')].k = "Block")
            => kont'[Len(kont')].previous = env
        /\ (kont # <<>> /\ Len(kont') = Len(kont) /\ Top.k # "Call"
              /\ kont'[Len(kont')].k = "Call")
            => kont'[Len(kont')].previous = env
        /\ \A i \in 1..Len(kont') :
              (i <= Len(kont) /\ kont[i].k \in {"Block", "Call"} /\ kont'[i].k = kont[i].k)
                 => kont'[i].previous = kont[i].previous
        /\ (kont # <<>> /\ Top.k \in {"Block", "Call"} /\ Len(kont') < Len(kont))
            => env' = Top.previous
        /\ Stopped(mode') => env' = 1
      ]_vars

\* g() has completed with 8: inside it f(7) returned through the while body,
\* the if branch and f's body block, and g's own return passed its body block.
C1_Witness ==
    /\ suite = 1
    /\ prog = <<1, 2, 3>>
    /\ Len(outs) = 3
    /\ outs[3] = IntValue(8)
    /\ env = 1
    /\ Len(frames) = 7

\* C2 as stated: once a return statement inside a function body has raised
\* its signal (carrying the value of its expression, or null without one),
\* nothing runs but the unwinding of the waiting activations up to the
\* nearest call, and that call yields the carried value to its caller, whose
\* own activations are left in place.
C2_ReturnYieldsValue ==
    [][ /\ (mode = "eval" /\ cur.node = "ReturnStmt" /\ cur.value = NoNode)
            => (mode' = "ret" /\ acc' = NULL)
        /\ (mode = "val" /\ kont # <<>> /\ Top.k = "Return")
            => (mode' = "ret" /\ acc' = acc /\ kont' = Pop)
        /\ (mode = "ret" /\ InCall(kont))
            => /\ kont' = Pop
               /\ acc' = acc
               /\ heap' = heap
               /\ mode' = IF Top.k = "Call" THEN "val" ELSE "ret"
      ]_vars

\* C2 as amended: the same, except that the nearest call first checks the
\* carried value against the function's declared return type and raises
\* TypeError instead of yielding it when the check fails.  In the control
\* pool, `let z = 0` (the statement after the return in f's body) has run
\* only if f(null) was called.
C2_ReturnEndsNearestCall ==
    [][ /\ (mode = "eval" /\ cur.node = "ReturnStmt" /\ cur.value = NoNode)
            => (mode' = "ret" /\ acc' = NULL)
        /\ (mode = "val" /\ kont # <<>> /\ Top.k = "Return")
            => (mode' = "ret" /\ acc' = acc /\ kont' = Pop)
        /\ (mode = "ret" /\ InCall(kont))
            => /\ kont' = Pop
               /\ acc' = acc
               /\ heap' = heap
               /\ IF Top.k # "Call" THEN mode' = "ret"
                  ELSE IF _enforce_type(fns[Top.fn].return_type, acc) THEN mode' = "val"
                  ELSE mode' = "err" /\ err'.kind = "TypeError"
        /\ (suite = 1 /\ 4 \notin Range(prog'))
            => \A f \in 1..Len(frames') : "z" \notin DOMAIN frames'[f].values
      ]_vars

\* Inside g, f(7) has returned 7 from within its while loop to g's
\* `let r = f(7)`, and g goes on.
C2_Witness ==
    /\ suite = 1
    /\ mode = "val"
    /\ kont # <<>>
    /\ Top.k = "VarDecl"
    /\ Top.name = "r"
    /\ acc = IntValue(7)
    /\ InCall(kont)

\* C3: a ReturnSignal never leaves run and main as an uncaught exception.
C3_ReturnNeverLeaks == mode # "leaked"

\* The value of the global y when statement i of a scope-pool program runs:
\* the number of `y = y + 1` since the latest `let y = 0` (-1: y is unbound).
GlobalY(i) ==
    LET lets == {j \in 1..(i - 1) : prog[j] = 1} IN
    IF lets = {} THEN -1
    ELSE LET m == CHOOSE j \in lets : \A k \in lets : k <= j IN
         Cardinality({j \in (m + 1)..(i - 1) : prog[j] = 4})

\* C4: the frame a user-function call creates has the function's captured
\* frame as parent, not the caller's current frame: gety's body, called from
\* a block whose own frame binds y to 5 or from h whose parameter y is 9,
\* never yields that caller-local y; it yields nothing (the call fails)
\* while no global y is bound.
C4_ParentIsCapturedFrame ==
    [][ /\ (mode = "call" /\ mode' = "eval")
            => frames'[Len(frames')].parent = fns[Top.callee.ref].closure
        /\ suite = 3
            => \A i \in 1..Len(outs') :
                  prog[i] \in {3, 6}
                     => /\ GlobalY(i) # -1
                        /\ outs'[i] # IntValue(5)
                        /\ outs'[i] # IntValue(9)
      ]_vars

\* y is bound globally (0) and in the calling block (5): gety() yielded 0.
C4_Witness ==
    /\ suite = 3
    /\ prog = <<1, 2, 3>>
    /\ outs = <<IntValue(0), FunctionValue(1), IntValue(0)>>

\* The number of s() calls in statements m+1..i of a counter-pool program,
\* where m is the latest `let s = make();` before statement i.
CallsOfS(i) ==
    LET lets == {j \in 1..(i - 1) : prog[j] = 2}
        m == CHOOSE j \in lets : \A k \in lets : k <= j
    IN Cardinality({j \in (m + 1)..i : prog[j] = 3})

\* C5: a closure sees its captured frame itself.  The k-th call of s() after
\* `let s = make();` yields k (make's frame, exited long before, keeps c and
\* step's own assignment to c is seen by the next call), so scenario 2 ends
\* with 1, 2, 3; and gety() yields the global y as other code has reassigned
\* it since gety was declared.
C5_CaptureByReference ==
    /\ suite = 2
         => /\ \A i \in 1..Len(outs) : prog[i] = 3 => outs[i] = IntValue(CallsOfS(i))
            /\ (prog = <<1, 2, 3, 3, 3>> /\ mode = "done") => acc = IntValue(3)
    /\ suite = 3
         => \A i \in 1..Len(outs) : prog[i] \in {3, 6} => outs[i] = IntValue(GlobalY(i))

\* Scenario 2 has run to its end.
C5_Witness ==
    /\ suite = 2
    /\ prog = <<1, 2, 3, 3, 3>>
    /\ mode = "done"
    /\ outs[3] = IntValue(1)
    /\ outs[4] = IntValue(2)
    /\ outs[5] = IntValue(3)

\* C6: every binding of every frame whose declared type is present and not
\* `Any` holds a value whose type tag is the declared base type; and an
\* identifier assignment of a value with another tag raises TypeError and
\* changes no frame.
C6_GradualTyping ==
    [][ /\ \A f \in 1..Len(frames') : \A n \in DOMAIN frames'[f].types :
              Enforced(frames'[f].types[n])
                 => type_name(frames'[f].values[n]) = BaseOf(frames'[f].types[n])
        /\ (mode = "val" /\ kont # <<>> /\ Top.k = "Assign" /\ Top.target.node = "Identifier")
            => LET g == ValuesFrame(frames, env, Top.target.name) IN
               (g # 0 /\ Enforced(frames[g].types[Top.target.name])
                  /\ type_name(acc) # BaseOf(frames[g].types[Top.target.name]))
                  => (mode' = "err" /\ err'.kind = "TypeError" /\ frames' = frames)
      ]_vars

\* `x = "a"` inside a block was rejected and the global x: Int still holds
\* an Int.
C6_Witness ==
    /\ suite = 4
    /\ mode = "failed"
    /\ err = TypeError_("assignment")
    /\ prog[Len(prog)] = 8
    /\ frames[1].types["x"] = T_Int
    /\ frames[1].values["x"].t = "Int"

\* C7: no step changes the declared type recorded for a name in a frame.
C7_DeclaredTypeNeverChanges ==
    [][ \A f \in 1..Len(frames) : \A n \in DOMAIN frames[f].types :
           /\ n \in DOMAIN frames'[f].types
           /\ frames'[f].types[n] = frames[f].types[n]
      ]_vars

\* C8: _enforce_type returns exactly when there is no declaration, or the
\* declaration is `Any`, or the value's type tag is the part of the
\* declaration before its first "["; otherwise it raises TypeError.  What
\* stands inside the brackets is not looked at.
C8_EnforceBaseOnly ==
    te.phase = "out"
       => /\ te.ok <=> \/ te.expected = NoType
                       \/ te.expected = AnyType
                       \/ type_name(te.value) = BaseOf(te.expected)
          /\ ~te.ok => (mode = "err" /\ err.kind = "TypeError")

\* List[Int] accepted a list whose only element is a string.
C8_Witness ==
    /\ te.phase = "out"
    /\ te.expected = T_ListInt
    /\ te.value = ListValue(1)
    /\ lists[1] = <<StringValue(S_a)>>
    /\ te.ok

\* Nothing the caller or the captured frame can see has changed, and the
\* body has not been entered.
CallRejected ==
    /\ mode' = "err"
    /\ kont' = Pop
    /\ env' = env
    /\ SubSeq(frames', 1, Len(frames)) = frames
    /\ <<fns', lists', maps'>> = <<fns, lists, maps>>

\* C9: a call of a user function with a wrong number of arguments raises
\* RuntimeError, one with an argument whose tag is not its parameter's
\* declared base type raises TypeError; either way no statement of the body
\* runs and every existing frame keeps its bindings.
C9_CallRejected ==
    [][ (mode = "call" /\ Top.callee.t = "Function")
          => LET fn == fns[Top.callee.ref]
                 args == Top.done
             IN /\ Len(args) # Len(fn.params)
                   => (CallRejected /\ err'.kind = "RuntimeError")
                /\ (/\ Len(args) = Len(fn.params)
                    /\ \E i \in 1..Len(args) :
                          /\ Enforced(fn.params[i][2])
                          /\ type_name(args[i]) # BaseOf(fn.params[i][2]))
                   => (CallRejected /\ err'.kind = "TypeError")
      ]_vars

\* p(0, "a") was rejected on b after a had been bound in the discarded frame.
C9_Witness ==
    /\ suite = 5
    /\ mode = "err"
    /\ err = TypeError_("argument")
    /\ env = 1
    /\ DOMAIN frames[Len(frames)].values = {"a"}
    /\ "a" \notin DOMAIN frames[1].values

\* C10: a call of a function whose declared return type T is present and not
\* `Any` yields only a value whose tag is T's base; what it yields is the
\* value the return carried, or null when the body ended without a return,
\* and then the call raises TypeError unless T's base is Null.
C10_ReturnTypeEnforced ==
    [][ (kont # <<>> /\ Top.k = "Call" /\ mode \in {"ret", "val"})
          => LET T == fns[Top.fn].return_type IN
             /\ (mode' = "val" /\ Enforced(T)) => type_name(acc') = BaseOf(T)
             /\ (mode' = "val" /\ mode = "ret") => acc' = acc
             /\ (mode' = "val" /\ mode = "val") => acc' = NULL
             /\ (mode = "val" /\ Enforced(T))
                   => IF BaseOf(T) = <<"N","u","l","l">>
                      THEN mode' = "val"
                      ELSE mode' = "err" /\ err'.kind = "TypeError"
      ]_vars

\* p(5, 0), declared to return Int, ended without a return and was rejected.
C10_Witness ==
    /\ suite = 5
    /\ mode = "failed"
    /\ err = TypeError_("return")
    /\ prog[Len(prog)] = 3

\* What each statement of the alias pool yields.
AliasYields == <<IntValue(2), IntValue(3), IntValue(4), TRUE_, FALSE_>>
IsContainer(v) == v.t \in {"List", "Map"}

\* C11: lists and maps are shared, never copied.  Binding a list or map to
\* a name or a parameter stores the same object and allocates none; an index
\* write changes that one object in place, so an index read of the written
\* position through the object (whatever name, argument or container element
\* led to it) yields the written value, and no other object changes; `==`
\* and `!=` on two lists or two maps compare the objects' identities, so two
\* literals with equal contents are unequal.  The alias scenarios yield 2, 3
\* and 4 (the value written through the other alias), true and false.
C11_SharedByReference ==
    [][ /\ (mode = "val" /\ kont # <<>> /\ Top.k = "AssignIdx" /\ mode' = "val")
            => /\ _index_get(lists', maps', Top.obj, acc) = Ok(Top.value)
               /\ frames' = frames
               /\ Len(lists') = Len(lists) /\ Len(maps') = Len(maps)
               /\ \A r \in 1..Len(lists) :
                     (Top.obj # ListValue(r)) => lists'[r] = lists[r]
               /\ \A r \in 1..Len(maps) :
                     (Top.obj # MapValue(r)) => maps'[r] = maps[r]
        /\ (mode = "val" /\ kont # <<>> /\ Top.k = "VarDecl" /\ IsContainer(acc)
              /\ mode' = "val")
            => /\ frames'[env].values[Top.name] = acc
               /\ lists' = lists /\ maps' = maps
        /\ (mode = "call" /\ mode' = "eval")
            => /\ \A i \in 1..Len(Top.done) :
                     frames'[env'].values[fns[Top.callee.ref].params[i][1]] = Top.done[i]
               /\ lists' = lists /\ maps' = maps
        /\ (mode = "val" /\ kont # <<>> /\ Top.k = "BinaryRight"
              /\ Top.op \in {"==", "!="} /\ IsContainer(acc) /\ Top.left.t = acc.t)
            => acc' = BoolValue((Top.left.ref = acc.ref) <=> (Top.op = "=="))
        /\ suite = 7 => \A i \in 1..Len(outs') : outs'[i] = AliasYields[prog'[i]]
      ]_vars

\* The write through the element of a container, then the write through a
\* second name, were each read back through the first name.
C11_Witness ==
    /\ suite = 7
    /\ prog = <<3, 1>>
    /\ outs = <<IntValue(4), IntValue(2)>>
    /\ lists[2] = <<IntValue(2)>>
    /\ frames[3].values["a"] = frames[3].values["b"]

\* Numeric equality of two Int or Float values, exact.
NumEq(a, b) ==
    IF "v53" \in DOMAIN a \/ "v53" \in DOMAIN b
    THEN "v53" \in DOMAIN a /\ "v53" \in DOMAIN b /\ a.v53 = b.v53
    ELSE Num(a)[1] * Num(b)[2] = Num(b)[1] * Num(a)[2]
\* Two keys name the same slot: numbers when numerically equal, a key of any
\* other class only with an equal key of its own class.
SameSlot(a, b) == IF IsNumber(a) /\ IsNumber(b) THEN NumEq(a, b) ELSE a = b
\* The writes of the run so far stored under a key naming the slot of idx.
WritesTo(idx) == {i \in 1..Len(te.writes) : SameSlot(te.writes[i].idx, idx)}
LastOf(S) == CHOOSE i \in S : \A j \in S : j <= i
ReadOf(t) == te.obj.t = t /\ te.last.op = "get"
WriteOf(t) == te.obj.t = t /\ te.last.op = "set"

\* C12: a read of a map with a primitive key yields the value of the latest
\* write under that key or, for an Int or Float key, under a numerically
\* equal Int or Float key, and null when there was none; writes under keys
\* of other classes (true, "1", null for the key 1) never count.
C12_MapKeyLaw ==
    (ReadOf("Map") /\ te.last.ok)
       => acc = IF WritesTo(te.last.idx) = {} THEN NULL
                ELSE te.writes[LastOf(WritesTo(te.last.idx))].value

NotAKey(v) == v.t \in {"List", "Map", "Function"}
KeyRejected == mode' = "err" /\ err'.kind = "RuntimeError" /\ IsGadyError(err') /\ maps' = maps

\* C13: a list, map or function used as a map key fails with the
\* interpreter's RuntimeError, which main catches: in a map literal (when
\* the entry is stored), in an index read of a map and in an index write on
\* a map; none of the three changes any map's entries.
C13_UnhashableKey ==
    [][ /\ (mode = "val" /\ kont # <<>> /\ Top.k = "MapValue" /\ NotAKey(Top.key))
            => KeyRejected
        /\ (mode = "val" /\ kont # <<>> /\ Top.k = "IndexIdx" /\ Top.obj.t = "Map"
              /\ NotAKey(acc))
            => KeyRejected
        /\ (mode = "val" /\ kont # <<>> /\ Top.k = "AssignIdx" /\ Top.obj.t = "Map"
              /\ NotAKey(acc))
            => KeyRejected
        /\ suite = 8 => mode' # "leaked"
      ]_vars

\* m[[1]] = 3 failed and m still has its one entry, 1: 2.
C13_Witness ==
    /\ suite = 8
    /\ prog = <<1>>
    /\ mode = "failed"
    /\ err = RuntimeError_("Unhashable key type")
    /\ Len(maps[2]) = 1
    /\ maps[2][1].key = IntValue(1)
    /\ maps[2][1].val = IntValue(2)

\* The list and the map of an index run, and what the latest operation did.
TheList == lists[1]
Primitive(v) == v.t \in {"Null", "Bool", "Int", "Float", "String"}
Failed(m, e) == m = "err" /\ e.kind = "RuntimeError"

C15_IndexWrite ==
    [][ (te'.last.op = "set" /\ te.obj.t = "List")
          => LET idx == te'.last.idx
                 n == Len(TheList)
                 value == IntValue(Len(te.writes) + 1)
                 new == lists'[1]
             IN /\ Len(new) \in {n, n + 1}
                /\ ~te'.last.ok => (Failed(mode', err') /\ lists' = lists)
                /\ (idx.t = "Int" /\ "v53" \notin DOMAIN idx)
                      => /\ (0 <= idx.v /\ idx.v < n)
                            => (te'.last.ok /\ new = [TheList EXCEPT ![idx.v + 1] = value])
                         /\ idx.v = n => (te'.last.ok /\ new = Append(TheList, value))
                         /\ (idx.v < 0 \/ idx.v > n) => ~te'.last.ok
                /\ (idx.t = "Int" /\ "v53" \in DOMAIN idx) => ~te'.last.ok
      ]_vars

\* The list [1] was written at 2, one past its end: the write raised and the
\* list is still [1].
C15_Witness ==
    /\ te.phase = "index"
    /\ te.obj = ListValue(1)
    /\ lists[1] = <<IntValue(1)>>
    /\ te.last = [op |-> "set", idx |-> IntValue(2), ok |-> FALSE]
    /\ mode = "err"
    /\ err.kind = "RuntimeError"

Falsy(v) == v = NULL \/ v = FALSE_
\* the left operand decides: the expression yields it and nothing else happens
YieldsLeft ==
    /\ mode' = "val"
    /\ acc' = acc
    /\ kont' = Pop
    /\ heap' = heap /\ err' = err /\ env' = env
\* the expression is its right operand from here on
GoesRight == mode' = "eval" /\ cur' = Top.right /\ kont' = Pop /\ heap' = heap

\* C16: with only null and false falsy, `a && b` yields a itself and never
\* enters b when a is null or false, and otherwise is the value (or the
\* error) of b; `a || b` yields a itself and never enters b when a is
\* anything but null and false, and otherwise is b.  In the scenarios
\* `false && (1/0)` is false, `true || (1/0)` is true, the skipped
\* assignments leave n at 0, `"" && [] && ({} || (1/0))` is the map, and
\* `(false || null) && (1/0)` is null.
C16_ShortCircuit ==
    [][ /\ (mode = "val" /\ kont # <<>> /\ Top.k = "BinaryLeft" /\ Top.op = "&&")
            => IF Falsy(acc) THEN YieldsLeft ELSE GoesRight
        /\ (mode = "val" /\ kont # <<>> /\ Top.k = "BinaryLeft" /\ Top.op = "||")
            => IF Falsy(acc) THEN GoesRight ELSE YieldsLeft
        /\ suite = 9
            => \A i \in 1..Len(outs') :
                  CASE prog'[i] = 1 -> outs'[i] = FALSE_
                    [] prog'[i] = 2 -> outs'[i] = TRUE_
                    [] prog'[i] = 3 -> outs'[i] = IntValue(0)
                    [] prog'[i] = 4 -> outs'[i].t = "Map"
                    [] prog'[i] = 5 -> outs'[i] = NULL
                    [] OTHER -> FALSE
      ]_vars

\* The assignments behind `null &&` and `0 ||` were skipped, and
\* `0 && (1/0)` went on to divide.
C16_Witness ==
    /\ suite = 9
    /\ prog = <<3, 6>>
    /\ outs = <<IntValue(0)>>
    /\ mode = "failed"
    /\ err = RuntimeError_("Division by zero")

\* An Int or Float as the fraction <<numerator, denominator>> it denotes.
Frac(v) == IF v.t = "Int" THEN <<v.v, 1>> ELSE <<v.n, v.d>>
IsZero(v) == Frac(v)[1] = 0
\* the Float value n / d
Quotient(n, d) == FloatValue(n, d)
\* the result of + - * on two numbers, as a fraction
Exact(a, op, b) ==
    LET x == Frac(a)
        y == Frac(b)
    IN CASE op = "+" -> <<x[1] * y[2] + y[1] * x[2], x[2] * y[2]>>
         [] op = "-" -> <<x[1] * y[2] - y[1] * x[2], x[2] * y[2]>>
         [] op = "*" -> <<x[1] * y[1], x[2] * y[2]>>
\* floor modulus: the r with a = q * b + r and r between 0 and b
IsModulus(r, a, b) ==
    /\ (a - r) % Abs(b) = 0
    /\ IF b > 0 THEN 0 <= r /\ r < b ELSE b < r /\ r <= 0

\* C17: on two numbers `+`, `-` and `*` yield an Int (the exact result) when
\* both operands are Int and a Float otherwise; `/` yields a Float whenever
\* the divisor is not zero, for two Ints too (7 / 2 is 3.5);
\* `%` yields the Int modulus of two Ints and raises RuntimeError when an
\* operand is a Float; `/` and `%` raise RuntimeError on the divisor 0 or
\* 0.0.  With an operand that is no number (a Bool too) every operator
\* raises RuntimeError, except `+` on two strings, their concatenation.
C17_Arithmetic ==
    te.phase = "out"
       => LET a == te.a
              b == te.b
              op == te.op
              raised == ~te.ok /\ mode = "err" /\ err.kind = "RuntimeError"
          IN IF IsNumber(a) /\ IsNumber(b) THEN
                 CASE op \in {"+", "-", "*"} ->
                        /\ te.ok
                        /\ acc.t = IF a.t = "Int" /\ b.t = "Int" THEN "Int" ELSE "Float"
                        /\ (a.t = "Int" /\ b.t = "Int") => acc = IntValue(Exact(a, op, b)[1])
                   [] op = "/" ->
                        IF IsZero(b) THEN raised
                        ELSE /\ te.ok
                             /\ acc.t = "Float"
                             /\ (a = IntValue(7) /\ b = IntValue(2)) => acc = Quotient(7, 2)
                   [] op = "%" ->
                        IF IsZero(b) \/ a.t = "Float" \/ b.t = "Float" THEN raised
                        ELSE te.ok /\ acc.t = "Int" /\ IsModulus(acc.v, a.v, b.v)
             ELSE IF op = "+" /\ a.t = "String" /\ b.t = "String"
             THEN te.ok /\ acc = StringValue(a.s \o b.s)
             ELSE raised

\* 7 / 2 is the Float 3.5.
C17_Witness ==
    /\ te.phase = "out"
    /\ te.a = IntValue(7)
    /\ te.op = "/"
    /\ te.b = IntValue(2)
    /\ te.ok
    /\ acc = [t |-> "Float", n |-> 7, d |-> 2]

\* The frames from f outwards: f, its parent, ..., the global frame.
RECURSIVE Chain(_, _)
Chain(fs, f) == IF f = 0 THEN <<>> ELSE <<f>> \o Chain(fs, fs[f].parent)
\* The innermost frame of f's chain that binds name (0: none does).
Binder(fs, f, name) ==
    LET c == Chain(fs, f)
        S == {i \in 1..Len(c) : name \in DOMAIN fs[c[i]].values}
    IN IF S = {} THEN 0 ELSE c[CHOOSE i \in S : \A j \in S : i <= j]
\* fs2 is fs with exactly the value of name in frame g replaced by v.
OnlyValueChanged(fs, fs2, g, name, v) ==
    /\ Len(fs2) = Len(fs)
    /\ \A f \in 1..Len(fs) : f # g => fs2[f] = fs[f]
    /\ fs2[g].parent = fs[g].parent
    /\ fs2[g].types = fs[g].types
    /\ DOMAIN fs2[g].values = DOMAIN fs[g].values
    /\ \A n \in DOMAIN fs[g].values : fs2[g].values[n] = IF n = name THEN v ELSE fs[g].values[n]

\* C18: `define` (a variable or function declaration) writes the current
\* frame and no other, and a `get` of the name from that frame then finds
\* the defined value there, whatever outer frames bind; `assign` replaces
\* the value in the innermost frame of the chain that binds the name and
\* changes nothing else; `assign` and `get` of a name no frame of the chain
\* binds raise RuntimeError and change no frame.
C18_EnvironmentLaw ==
    [][ /\ (mode = "val" /\ kont # <<>> /\ Top.k = "VarDecl" /\ mode' = "val")
            => /\ \A f \in 1..Len(frames) : f # env => frames'[f] = frames[f]
               /\ Binder(frames', env, Top.name) = env
               /\ frames'[env].values[Top.name] = acc
        /\ (mode = "eval" /\ cur.node = "FunctionDecl")
            => /\ \A f \in 1..Len(frames) : f # env => frames'[f] = frames[f]
               /\ Binder(frames', env, cur.name) = env
               /\ frames'[env].values[cur.name] = acc'
        /\ (mode = "eval" /\ cur.node = "Identifier")
            => LET g == Binder(frames, env, cur.name) IN
               /\ frames' = frames
               /\ IF g = 0 THEN Failed(mode', err')
                  ELSE mode' = "val" /\ acc' = frames[g].values[cur.name]
        /\ (mode = "val" /\ kont # <<>> /\ Top.k = "Assign" /\ Top.target.node = "Identifier")
            => LET g == Binder(frames, env, Top.target.name) IN
               IF g = 0 THEN Failed(mode', err') /\ frames' = frames
               ELSE IF mode' = "val"
               THEN OnlyValueChanged(frames, frames', g, Top.target.name, acc)
               ELSE frames' = frames
        /\ suite = 10
            => \A i \in 1..Len(outs') :
                  CASE prog'[i] = 1 -> outs'[i] = IntValue(1)
                    [] prog'[i] = 2 -> outs'[i] = IntValue(3)
                    [] prog'[i] = 5 -> outs'[i] = IntValue(2)
                    [] OTHER -> FALSE
      ]_vars

\* `v = 3` in the inner block, which has its own v, left the outer v at 1.
C18_Witness ==
    /\ suite = 10
    /\ prog = <<1>>
    /\ outs = <<IntValue(1)>>
    /\ frames[2].values["v"] = IntValue(1)
    /\ frames[3].values["v"] = IntValue(3)

Waiting(kind) == mode = "val" /\ kont # <<>> /\ Top.k = kind
Enters(e) == mode' = "eval" /\ cur' = e /\ heap' = heap

\* C19: the sub-expressions are entered in this order.  Assignment: the
\* right-hand side, and only when it has a value the target: for an index
\* target the container expression, then the index expression, then the
\* write.  Call: the callee, then the arguments from left to right, then the
\* call.  List literal: the elements from left to right.  Map literal: the
\* first key, its value, the next key, its value, ...  In the scenarios each
\* sub-expression appends its digit to o when it is evaluated, and o ends as
\* 123 (right-hand side 1, container 2, index 3), 123 (callee 1, arguments
\* 2, 3) and 123456 (elements 1, 2; key 3, value 4, key 5, value 6).
C19_EvaluationOrder ==
    [][ /\ (mode = "eval" /\ cur.node = "AssignExpr") => Enters(cur.value)
        /\ (Waiting("Assign") /\ Top.target.node = "IndexExpr") => Enters(Top.target.obj)
        /\ Waiting("AssignObj") => Enters(Top.index)
        /\ Waiting("AssignIdx") => (mode' \in {"val", "err"} /\ kont' = Pop)
        /\ (mode = "eval" /\ cur.node = "CallExpr") => Enters(cur.callee)
        /\ (Waiting("Callee") /\ Top.args # <<>>) => Enters(Top.args[1])
        /\ (Waiting("Args") /\ Top.rest # <<>>) => Enters(Top.rest[1])
        /\ (Waiting("Args") /\ Top.rest = <<>>) => mode' = "call"
        /\ (mode = "eval" /\ cur.node = "ListLiteral" /\ cur.elements # <<>>)
            => Enters(cur.elements[1])
        /\ (Waiting("List") /\ Top.rest # <<>>) => Enters(Top.rest[1])
        /\ (mode = "eval" /\ cur.node = "MapLiteral" /\ cur.entries # <<>>)
            => (mode' = "eval" /\ cur' = cur.entries[1][1])
        /\ Waiting("MapKey") => Enters(Top.rest[1][2])
        /\ (Waiting("MapValue") /\ Len(Top.rest) > 1 /\ mode' # "err")
            => (mode' = "eval" /\ cur' = Top.rest[2][1])
        /\ suite = 11
            => \A i \in 1..Len(outs') :
                  outs'[i] = IF prog'[i] = 3 THEN IntValue(123456) ELSE IntValue(123)
      ]_vars

\* The index assignment and the literals have run: o recorded 1, 2, 3 and
\* 1, ..., 6, and the assignment stored 5 in xs[0].
C19_Witness ==
    /\ suite = 11
    /\ prog = <<1, 3>>
    /\ outs = <<IntValue(123), IntValue(123456)>>
    /\ lists[1] = <<IntValue(5)>>

\* tokenize has returned te.tokens for the text te.lexer.text
Tokenized == mode = "lex" /\ te.phase = "returned"

\* C20: when tokenize succeeds, the last token of the list is EOF and no
\* other token is; the EOF token's start and end index are the length of the
\* text; every token has start.index <= end.index; and each token's
\* end.index is at most the start.index of the token after it.
C20_TokenPositions ==
    Tokenized =>
        LET ts == te.tokens
            n == Len(ts)
        IN /\ n >= 1
           /\ ts[n].type = "EOF"
           /\ \A i \in 1..(n - 1) : ts[i].type # "EOF"
           /\ ts[n].start.index = Len(te.lexer.text)
           /\ ts[n].end.index = Len(te.lexer.text)
           /\ \A i \in 1..n : ts[i].start.index <= ts[i].end.index
           /\ \A i \in 1..(n - 1) : ts[i].end.index <= ts[i + 1].start.index

\* tokenize returned FLOAT at 0..1, EQ_EQ at 2..3 and EOF at 4 for "1.==".
C20_Witness ==
    /\ Tokenized
    /\ te.lexer.text = <<"1", ".", "=", "=">>
    /\ Len(te.tokens) = 3
    /\ te.tokens[1].type = "FLOAT"
    /\ te.tokens[1].end.index = 1
    /\ te.tokens[2].type = "EQ_EQ"
    /\ te.tokens[2].start.index = 2
    /\ te.tokens[2].end.index = 3
    /\ te.tokens[3].start.index = 4

\* the characters the language gives a meaning outside comments and strings
\* (the model's ASCII letters and digits, "_", the whitespace, punctuation
\* and operator characters and the double quote)
WordChars == AsciiLetters \cup {"_"} \cup {Digits[i] : i \in 1..Len(Digits)}
Meaningful ==
    WordChars \cup Blanks \cup {"/", "\""} \cup DOMAIN SimpleTokens
    \cup DOMAIN OneOrTwo \cup DOMAIN Doubled

\* C21: when tokenize's loop reads, outside comments and strings, a
\* character that is none of the meaningful ones, it raises a LexError
\* positioned at that character; and every character of every IDENT token is
\* an ASCII letter, a digit or "_".
C21_IdentifierCharacters ==
    [][ /\ (Lexing /\ current_char \notin Meaningful)
            => /\ te'.phase = "raised"
               /\ err'.kind = "LexError"
               /\ err'.start = te.lexer.pos
        /\ \A i \in 1..Len(te'.tokens) :
              te'.tokens[i].type = "IDENT"
                  => \A j \in 1..Len(te'.tokens[i].value) :
                        te'.tokens[i].value[j] \in WordChars
      ]_vars

\* parse_program has returned te.stmts for the token list of te.src
Parsed == mode = "parse" /\ te.phase = "returned"
ParseRaised == mode = "err" /\ te.phase = "raised"

\* the language's precedence levels of the binary operators (2: logical or
\* ... 7: multiplicative) and the operator each token stands for
LevelOf ==
    [OR_OR |-> 2, AND_AND |-> 3, EQ_EQ |-> 4, BANG_EQ |-> 4, LT |-> 5, LTE |-> 5,
     GT |-> 5, GTE |-> 5, PLUS |-> 6, MINUS |-> 6, STAR |-> 7, SLASH |-> 7, PERCENT |-> 7]
OpOf ==
    [OR_OR |-> "||", AND_AND |-> "&&", EQ_EQ |-> "==", BANG_EQ |-> "!=", LT |-> "<",
     LTE |-> "<=", GT |-> ">", GTE |-> ">=", PLUS |-> "+", MINUS |-> "-", STAR |-> "*",
     SLASH |-> "/", PERCENT |-> "%", BANG |-> "!"]
A_ == Identifier(S_a)
B_ == Identifier(S_b)
C_ == Identifier(S_c)

\* C22: `a t1 b t2 c` is a t1 (b t2 c) when t2 is of a higher level than
\* t1, and (a t1 b) t2 c otherwise (same level: to the left); `a = b = c`
\* is a = (b = c) and `a = b t1 c` is a = (b t1 c); a prefix operator takes
\* its operand with the postfix steps (`-a[0]` is -(a[0])) and before any
\* binary operator (`-a t1 b` is (-a) t1 b); `1 + 2 * 3` is 1 + (2 * 3).
C22_Precedence ==
    /\ te.src \in OperatorSources
           \cup {Src_Precedence, Src_LeftAssoc, Src_RightAssoc, Src_UnaryPostfix}
        => ~ParseRaised
    /\ Parsed =>
        /\ \A t1 \in DOMAIN LevelOf, t2 \in DOMAIN LevelOf :
              te.src = Src_Pair(t1, t2) =>
                  te.stmts = <<ExprStmt(
                      IF LevelOf[t2] > LevelOf[t1]
                      THEN BinaryExpr(A_, OpOf[t1], BinaryExpr(B_, OpOf[t2], C_))
                      ELSE BinaryExpr(BinaryExpr(A_, OpOf[t1], B_), OpOf[t2], C_))>>
        /\ \A u \in {"BANG", "MINUS"}, t1 \in DOMAIN LevelOf :
              te.src = Src_Prefix(u, t1) =>
                  te.stmts = <<ExprStmt(BinaryExpr(UnaryExpr(OpOf[u], A_), OpOf[t1], B_))>>
        /\ \A t1 \in DOMAIN LevelOf :
              te.src = Src_Assign(t1) =>
                  te.stmts = <<ExprStmt(AssignExpr(A_, BinaryExpr(B_, OpOf[t1], C_)))>>
        /\ te.src = Src_RightAssoc =>
              te.stmts = <<ExprStmt(AssignExpr(A_, AssignExpr(B_, C_)))>>
        /\ te.src = Src_UnaryPostfix =>
              te.stmts = <<ExprStmt(UnaryExpr("-", IndexExpr(A_, IntLiteral(0))))>>
        /\ te.src = Src_Precedence =>
              te.stmts = <<ExprStmt(BinaryExpr(IntLiteral(1), "+",
                                               BinaryExpr(IntLiteral(2), "*",
                                                          IntLiteral(3))))>>

\* `a - b * c;` has been parsed as a - (b * c).
C22_Witness ==
    /\ Parsed
    /\ te.src = Src_Pair("MINUS", "STAR")
    /\ te.stmts = <<ExprStmt(BinaryExpr(A_, "-", BinaryExpr(B_, "*", C_)))>>

\* the nodes directly under a node of the tree
Children(n) ==
    CASE n.node = "ExprStmt" -> <<n.expr>>
      [] n.node = "VarDecl" -> <<n.initializer>>
      [] n.node = "Block" -> n.statements
      [] n.node = "IfStmt" -> <<n.condition, n.then_branch, n.else_branch>>
      [] n.node = "WhileStmt" -> <<n.condition, n.body>>
      [] n.node = "ReturnStmt" -> <<n.value>>
      [] n.node \in {"FunctionDecl", "FunctionExpr"} -> <<n.body>>
      [] n.node = "UnaryExpr" -> <<n.expr>>
      [] n.node = "BinaryExpr" -> <<n.left, n.right>>
      [] n.node = "AssignExpr" -> <<n.target, n.value>>
      [] n.node = "CallExpr" -> <<n.callee>> \o n.args
      [] n.node \in {"IndexExpr"} -> <<n.obj, n.index>>
      [] n.node = "GetAttrExpr" -> <<n.obj>>
      [] n.node = "ListLiteral" -> n.elements
      [] n.node = "MapLiteral" ->
            [k \in 1..(2 * Len(n.entries)) |-> n.entries[(k + 1) \div 2][2 - (k % 2)]]
      [] OTHER -> <<>>

\* the kinds of node that are the target of an assignment somewhere in a tree
RECURSIVE TargetKinds(_)
TargetKinds(n) ==
    (IF n.node = "AssignExpr" THEN {n.target.node} ELSE {})
    \cup UNION {TargetKinds(Children(n)[k]) : k \in 1..Len(Children(n))}

IsTarget(n) == n.node \in {"Identifier", "IndexExpr"}
BadTargetSources ==
    {Src_LiteralTarget, Src_CallTarget, Src_AttrTarget, Src_UnaryTarget, Src_BinaryTarget,
     Src_TargetChain}

\* what parse_assignment at position j does with a left-hand side followed
\* by "=": OnBadTarget(l, v, a) for a left-hand side that is no target, l
\* being the parsed left-hand side, v the parse of what follows the "=" and
\* a the result of parse_assignment
AssignmentsAt(ts, j, OnBadTarget(_, _, _)) ==
    \A l \in {parse_or(ts, j)} :
        (l.ok /\ check(ts, l.i, "EQ")) =>
            \A a \in {parse_assignment(ts, j)}, v \in {parse_assignment(ts, l.i + 1)} :
                IF IsTarget(l.val)
                THEN IF v.ok THEN a = Good(v.i, AssignExpr(l.val, v.val)) ELSE a = v
                ELSE /\ ~a.ok
                     /\ a.error.kind = "ParseError"
                     /\ OnBadTarget(l, v, a)

\* C23 as stated: a left-hand side that is no identifier and no index
\* expression makes the assignment fail with the ParseError "Invalid
\* assignment target."
C23_InvalidTargetMessage ==
    mode \in {"parse", "err"} =>
        \A j \in 0..(Len(te.tokens) - 1) :
            AssignmentsAt(te.tokens, j,
                          LAMBDA l, v, a : a.error.msg = "Invalid assignment target.")

\* C23, amended: no tree the parser returns holds an assignment whose target
\* is not an identifier or an index expression; a left-hand side of any
\* other kind followed by "=" makes the assignment fail with a ParseError:
\* "Invalid assignment target." at the "=" when what follows the "=" parses,
\* and otherwise the ParseError of what follows the "="; a left-hand side
\* that is an identifier or an index expression is accepted.  The sample
\* statements with a literal, call, attribute, unary or binary left-hand
\* side all fail with "Invalid assignment target.".
C23_InvalidTarget ==
    mode \in {"parse", "err"} =>
        /\ \A k \in 1..Len(te.stmts) : TargetKinds(te.stmts[k]) \subseteq {"Identifier", "IndexExpr"}
        /\ \A j \in 0..(Len(te.tokens) - 1) :
              AssignmentsAt(te.tokens, j,
                            LAMBDA l, v, a :
                               IF v.ok
                               THEN /\ a.error.msg = "Invalid assignment target."
                                    /\ a.error.start = te.tokens[l.i + 1].start
                               ELSE a.error = v.error)
        /\ (te.src \in BadTargetSources /\ te.phase # "parse")
              => (ParseRaised /\ err.msg = "Invalid assignment target.")

\* `a.b = 1;` has been rejected with "Invalid assignment target." at its "=".
C23_Witness ==
    /\ ParseRaised
    /\ te.src = Src_AttrTarget
    /\ err.kind = "ParseError"
    /\ err.msg = "Invalid assignment target."
    /\ err.start.index = 3
    /\ te.stmts = <<>>

\* the place of the first EOF token of a list (as a cursor value)
FirstEOF(ts) == (CHOOSE k \in 1..Len(ts) : ts[k].type = "EOF" /\ \A h \in 1..(k - 1) : ts[h].type # "EOF") - 1

\* r is what a parse method started at cursor j gave: the cursor is not
\* before j and not past the EOF token, and an error is a ParseError placed
\* as Placed(r) says
Outcome(ts, j, r, Placed(_)) ==
    /\ j <= r.i
    /\ r.i <= FirstEOF(ts)
    /\ ~r.ok => (r.error.kind = "ParseError" /\ Placed(r))
Consumes(j, r) == r.ok => r.i > j

\* the error is positioned at the token under the cursor when it is raised
AtCurrent(ts, r) ==
    /\ r.error.start = current(ts, r.i).start
    /\ r.error.end = current(ts, r.i).end
\* the error is "Invalid assignment target." at an "=" behind the cursor
AtEquals(ts, j, r) ==
    /\ r.error.msg = "Invalid assignment target."
    /\ \E k \in j..(r.i - 1) :
          /\ ts[k + 1].type = "EQ"
          /\ r.error.start = ts[k + 1].start
          /\ r.error.end = ts[k + 1].end

\* The loops of the parser on the token list of the state, from every
\* cursor up to the EOF token: an iteration of the statement loop and of the
\* block loop (parse_statement), of the type-annotation loop (TypeArgStep),
\* of the parameter, argument, element and entry loops and of the postfix
\* loop consumes a token or raises; no method moves the cursor past the EOF
\* token; errors are ParseErrors placed as Placed says; `import` is
\* rejected where a statement or an expression starts.  The token list does
\* not change while it is parsed, so the methods are tried from every cursor
\* once, in the state parse_program starts from.
ParserLaw(Placed(_, _, _)) ==
    LET ts == te.tokens IN
    /\ te.i <= FirstEOF(ts)
    /\ Len(te.stmts) <= te.i
    /\ Parsed => te.i = FirstEOF(ts)
    /\ ParseRaised => (err.kind = "ParseError" /\ Placed(ts, 0, [i |-> te.i, error |-> err]))
    /\ (te.phase = "parse" /\ te.i = 0) => \A j \in 0..FirstEOF(ts) :
          /\ \A s \in {parse_statement(ts, j)} :
                /\ Outcome(ts, j, s, LAMBDA r : Placed(ts, j, r))
                /\ Consumes(j, s)
                /\ current(ts, j).type = "IMPORT" =>
                      s = Bad(j, ParseError("Expected expression.", current(ts, j)))
          /\ \A e \in {parse_expression(ts, j)} :
                /\ Outcome(ts, j, e, LAMBDA r : Placed(ts, j, r))
                /\ Consumes(j, e)
          /\ \A d \in 1..2 : \A y \in {TypeArgStep(ts, j, d, <<"[">>)} :
                /\ Outcome(ts, j, y, LAMBDA r : Placed(ts, j, r))
                /\ ~at_end(ts, j) => Consumes(j, y)
          /\ \A y \in {parse_type_name(ts, j)} :
                /\ Outcome(ts, j, y, LAMBDA r : Placed(ts, j, r))
                /\ Consumes(j, y)
          /\ \A y \in {ParamsLoop(ts, j, <<>>)} :
                /\ Outcome(ts, j, y, LAMBDA r : Placed(ts, j, r))
                /\ Consumes(j, y)
          /\ \A y \in {ExprListLoop(ts, j, <<>>)} :
                /\ Outcome(ts, j, y, LAMBDA r : Placed(ts, j, r))
                /\ Consumes(j, y)
          /\ \A y \in {MapEntriesLoop(ts, j, <<>>)} :
                /\ Outcome(ts, j, y, LAMBDA r : Placed(ts, j, r))
                /\ Consumes(j, y)
          /\ \A x \in {PostfixStep(ts, j, A_)} :
                /\ Outcome(ts, j, x, LAMBDA r : Placed(ts, j, r))
                /\ x.ok => (x.val.more <=> x.i > j)

C24_ShadowedTyping ==
    [][ /\ (Waiting("Assign") /\ Top.target.node = "Identifier")
            => LET name == Top.target.name
                   g == Binder(frames, env, name)
               IN g # 0 =>
                    /\ name \in DOMAIN frames[g].types
                    /\ IF _enforce_type(frames[g].types[name], acc)
                       THEN mode' = "val" /\ OnlyValueChanged(frames, frames', g, name, acc)
                       ELSE mode' = "err" /\ err'.kind = "TypeError" /\ frames' = frames
        /\ suite = 12
            => /\ \A i \in 1..Len(outs') :
                     CASE prog'[i] = 1 -> outs'[i] = IntValue(1)
                       [] prog'[i] = 2 -> outs'[i] = StringValue(S_a)
                       [] prog'[i] = 5 -> outs'[i] = IntValue(1)
                       [] OTHER -> FALSE
               /\ mode' = "failed"
                     => (prog'[Len(prog')] \in {3, 4} /\ err'.kind = "TypeError")
      ]_vars

\* The inner, untyped x holds "a" while the outer Int x still holds 1.
C24_Witness ==
    /\ suite = 12
    /\ prog = <<1>>
    /\ mode = "val"
    /\ env = 3
    /\ "x" \in DOMAIN frames[3].values
    /\ frames[3].types["x"] = NoType
    /\ frames[3].values["x"] = StringValue(S_a)
    /\ frames[2].types["x"] = T_Int
    /\ frames[2].values["x"] = IntValue(1)

\* The part of an annotation before its first "[".
BeforeBracket(T) ==
    LET S == {i \in 1..Len(T) : T[i] = "["}
    IN IF S = {} THEN T ELSE SubSeq(T, 1, (CHOOSE i \in S : \A j \in S : i <= j) - 1)

\* A declaration without initializer takes null as its value; when the
\* annotation T is there, the declaration binds the name to null with T as
\* its declared type if Binds(T), and otherwise raises TypeError and leaves
\* every frame as it was.
UninitializedLaw(Binds(_)) ==
    /\ (mode = "eval" /\ cur.node = "VarDecl" /\ cur.initializer = NoNode)
        => /\ mode' = "val"
           /\ acc' = NULL
           /\ kont' = Append(kont, [k |-> "VarDecl", name |-> cur.name,
                                     type_name |-> cur.type_name])
    /\ (Waiting("VarDecl") /\ acc = NULL /\ Top.type_name # NoType)
        => IF Binds(Top.type_name)
           THEN /\ mode' = "val"
                /\ frames'[env].values[Top.name] = NULL
                /\ frames'[env].types[Top.name] = Top.type_name
                /\ \A f \in 1..Len(frames) : f # env => frames'[f] = frames[f]
           ELSE /\ mode' = "err"
                /\ err'.kind = "TypeError"
                /\ frames' = frames

\* C25 as stated: `let x: T;` binds x to null when the base of T is `Null`
\* or `Any`, and otherwise raises TypeError and creates no binding.
C25_UninitializedByBase ==
    [][UninitializedLaw(LAMBDA T : BeforeBracket(T) \in {T_Null, AnyType})]_vars

\* C25, amended: `let x: T;` binds x to null when T is `Any` or the base of
\* T is `Null`, and otherwise (also for `Any[Int]`, whose base is `Any`)
\* raises TypeError and creates no binding.  In the scenarios
\* `{ let x: T; x; }` yields null for Null, Null[Int] and Any and fails with
\* TypeError for Int, String, List[Int] and Any[Int].
C25_Uninitialized ==
    [][ /\ UninitializedLaw(LAMBDA T : T = AnyType \/ BeforeBracket(T) = T_Null)
        /\ suite = 13
            => /\ \A i \in 1..Len(outs') : prog'[i] \in {4, 5, 6} /\ outs'[i] = NULL
               /\ mode' = "failed"
                     => (prog'[Len(prog')] \in {1, 2, 3, 7} /\ err'.kind = "TypeError")
      ]_vars

\* `let x: Int;` has raised TypeError and the block's frame binds nothing.
C25_Witness ==
    /\ suite = 13
    /\ prog = <<1>>
    /\ mode = "err"
    /\ err.kind = "TypeError"
    /\ env = 2
    /\ DOMAIN frames[2].values = {}

\* frames2 is frames with one more Environment, whose parent is p and which
\* binds exactly the names of N; e is that new Environment.
FreshFrame(frames2, e, p, N) ==
    /\ Len(frames2) = Len(frames) + 1
    /\ e = Len(frames2)
    /\ \A f \in 1..Len(frames) : frames2[f] = frames[f]
    /\ frames2[e].parent = p
    /\ DOMAIN frames2[e].values = N
\* the FunctionValues the declaration `step` has made
Steps(fs) == {i \in 1..Len(fs) : fs[i].name = "step"}

\* C26: a call of a user function runs in an Environment that did not exist
\* before the call, whose parent is the function's closure and which binds
\* the parameters only; the body block runs in another new Environment, so
\* no frame of an earlier call is in the chain unless a closure captured
\* it.  In the scenarios the closures `step` of two calls of make capture
\* different frames; after s() has counted to 1, t() yields 1 as well,
\* whether the counter is a local or a parameter of make; and `w`, a local
\* of the finished call f(false), is an undefined variable in f(true).
C26_FreshFrames ==
    [][ /\ (mode = "call" /\ Top.callee.t = "Function" /\ mode' = "eval")
            => LET fn == fns[Top.callee.ref] IN
               FreshFrame(frames', env', fn.closure,
                          {fn.params[k][1] : k \in 1..Len(fn.params)})
        /\ (mode = "eval" /\ cur.node = "Block" /\ mode' = "val")
            => FreshFrame(frames', env', env, {})
        /\ suite = 14
            => /\ \A i, j \in Steps(fns') : i # j => fns'[i].closure # fns'[j].closure
               /\ \A i \in 1..Len(outs') :
                     prog'[i] \in {1, 2} /\ outs'[i] = IntValue(1)
               /\ mode' = "failed"
                     => (prog'[Len(prog')] = 3 /\ err'.kind = "RuntimeError")
      ]_vars

\* Both counters have counted once: each closure's own c is 1.
C26_Witness ==
    /\ suite = 14
    /\ prog = <<1>>
    /\ outs = <<IntValue(1)>>
    /\ \E i, j \in Steps(fns) :
          /\ i # j
          /\ fns[i].closure # fns[j].closure
          /\ frames[fns[i].closure].values["c"] = IntValue(1)
          /\ frames[fns[j].closure].values["c"] = IntValue(1)

\* a and b are the same number, one as an Int and the other as a Float
OtherFormOf(a, b) ==
    /\ IsNumber(a) /\ IsNumber(b)
    /\ a.t # b.t
    /\ "v53" \notin DOMAIN a /\ "v53" \notin DOMAIN b
    /\ LET i == IF a.t = "Int" THEN a ELSE b
           f == IF a.t = "Int" THEN b ELSE a
       IN f.n = i.v * f.d
\* __intrinsic_len(m) of the map of the run
LenOfMap == NativeImpl("__intrinsic_len", <<te.obj>>).val

\* C27: a write under a key that is the same number as an existing key of
\* the other numeric type leaves the number of entries, and the result of
\* __intrinsic_len, as they were; the entry stays at its position in the
\* display; every other entry is shown as before; and the entry is shown
\* with the key and the value just written, the key in a form other than
\* the one shown before.
C27_NumericOverwrite ==
    [][ (te.obj.t = "Map" /\ te'.last.op = "set" /\ te'.last.ok)
          => LET idx == te'.last.idx
                 value == IntValue(Len(te.writes) + 1)
                 old == maps[te.obj.ref]
                 new == maps'[te.obj.ref]
             IN \A i \in 1..Len(old) :
                   OtherFormOf(old[i].key, idx)
                     => /\ Len(new) = Len(old)
                        /\ LenOfMap' = LenOfMap
                        /\ LenOfMap = IntValue(Len(old))
                        /\ \A j \in 1..Len(old) :
                              j # i => DisplayParts(new)[j] = DisplayParts(old)[j]
                        /\ DisplayParts(new)[i] = display(idx) \o <<":", " ">> \o display(value)
                        /\ display(idx) # display(old[i].key)
      ]_vars

\* m["1"] = 1; m[1.0] = 2; m[1] = 3; leaves two entries, shown as
\* { "1": 1, 1: 3 }.
C27_Witness ==
    /\ te.phase = "index"
    /\ te.obj = MapValue(1)
    /\ Len(te.writes) = 3
    /\ te.writes[2].idx = FloatValue(1, 1)
    /\ te.last = [op |-> "set", idx |-> IntValue(1), ok |-> TRUE]
    /\ Len(maps[1]) = 2
    /\ MapValue_display(maps[1])
          = <<"{", " ", "\"", "1", "\"", ":", " ", "1", ",", " ", "1", ":", " ", "3", " ", "}">>

====
